---- MODULE Spec2Model ----
(***************************************************************************)
(* Alert orchestrator: transaction-corrected gains, the residual decision  *)
(* gate, reference resolution, per-wallet caps and the price-mismatch      *)
(* hysteresis, modelled from src/src/core/alert_logic.py and               *)
(* src/src/shared/correct_calculations.py.                                 *)
(*                                                                         *)
(* Conventions                                                             *)
(*  - instants are integers (ticks); now_utc is later than all of them.   *)
(*  - sequences are 1-based: index i of the model is index i-1 of the      *)
(*    numpy array it models (reference_time_index 0 is index 1 here).      *)
(*  - money is exact: an amount v of the program is the integer v * Unit,  *)
(*    Unit being a common multiple of every gap between two instants, so   *)
(*    that linear interpolation between samples stays integral.            *)
(***************************************************************************)
EXTENDS Integers, Sequences, FiniteSets, TLC

\* ------------------------------------------------------------------ bounds
MaxT == 2
MaxTx == 2
MaxCount == 3

Times == 0..MaxT

RECURSIVE Gcd(_, _)
Gcd(a, b) == IF b = 0 THEN a ELSE Gcd(b, a % b)

RECURSIVE LcmUpTo(_)
LcmUpTo(n) == IF n <= 1 THEN 1
              ELSE LET l == LcmUpTo(n - 1) IN (l * n) \div Gcd(l, n)

Unit == LcmUpTo(MaxT)

\* ------------------------------------------------------- generic helpers
Min2(a, b) == IF a <= b THEN a ELSE b
Max2(a, b) == IF a >= b THEN a ELSE b
Abs(a) == IF a < 0 THEN 0 - a ELSE a

\* bind a value once: Let(v, LAMBDA x : e) is e with x bound to v
Let(v, F(_)) == F(v)

SetMin(S) == CHOOSE x \in S : \A y \in S : x <= y
SetMax(S) == CHOOSE x \in S : \A y \in S : x >= y

RECURSIVE SortSet(_)
SortSet(S) == IF S = {} THEN << >>
              ELSE LET m == SetMin(S) IN << m >> \o SortSet(S \ {m})

RECURSIVE SeqSum(_)
SeqSum(s) == IF s = << >> THEN 0 ELSE Head(s) + SeqSum(Tail(s))

Range(s) == { s[i] : i \in DOMAIN s }

\* np.cumsum
CumSum(v) == [i \in DOMAIN v |-> SeqSum(SubSeq(v, 1, i))]

\* np.where(arr == x)[0]: the indices holding x, in increasing order
Matches(arr, x) == SortSet({ i \in DOMAIN arr : arr[i] = x })

\* ------------------------------------------- correct_calculations.py
\* create_unified_timebase: sorted union of both timestamp lists
create_unified_timebase(position_timestamps, transaction_timestamps) ==
    SortSet(Range(position_timestamps) \cup Range(transaction_timestamps))

\* np.interp(x, xp, fp) for increasing xp: boundary hold outside the
\* sampled range, the sample itself at a sample, linear in between.
\* fp is in money units (multiples of Unit), so the division is exact.
NpInterp(x, xp, fp) ==
    LET n == Len(xp) IN
    IF x <= xp[1] THEN fp[1]
    ELSE IF x >= xp[n] THEN fp[n]
    ELSE LET j == SetMax({ i \in 1..n : xp[i] <= x }) IN
         IF xp[j] = x THEN fp[j]
         ELSE fp[j] + ((fp[j + 1] - fp[j]) * (x - xp[j])) \div (xp[j + 1] - xp[j])

\* interpolate_positions_on_timebase raises on a length mismatch, on an
\* unsupported method, and (inside np.interp) on an empty sample array.
InterpolateRaises(position_timestamps, position_values, interpolation_method) ==
    \/ Len(position_timestamps) # Len(position_values)
    \/ interpolation_method \notin {"linear", "cubic"}
    \/ Len(position_timestamps) = 0

\* method "linear" (np.interp); every caller modelled here passes "linear".
interpolate_positions_on_timebase(position_timestamps, position_values, unified_timebase, interpolation_method) ==
    [i \in DOMAIN unified_timebase |->
        NpInterp(unified_timebase[i], position_timestamps, position_values)]

\* ------------------------------------------------ alignment policies
\* twice the median of a non-empty sequence of integers (np.median)
KthSmallest(s, k) ==
    CHOOSE v \in Range(s) :
       /\ Cardinality({ i \in DOMAIN s : s[i] < v }) < k
       /\ Cardinality({ i \in DOMAIN s : s[i] <= v }) >= k

\* np.sort
NpSort(s) == [k \in DOMAIN s |-> KthSmallest(s, k)]

Median2(s) ==
    LET n == Len(s)
    IN IF n % 2 = 1 THEN 2 * KthSmallest(s, (n + 1) \div 2)
       ELSE KthSmallest(s, n \div 2) + KthSmallest(s, n \div 2 + 1)

\* population variance numerator: Len(s)^2 * var(s)  (np.std, ddof=0)
VarNum(s) ==
    LET sq == [i \in DOMAIN s |-> s[i] * s[i]]
    IN Len(s) * SeqSum(sq) - SeqSum(s) * SeqSum(s)

window_bins == 8

\* The detect_spike branch of choose_index_for_tx. idx is 1-based; the
\* result is 0 when the branch falls through to "no shift".
\* dP[j] (1-based) = P[j+1] - P[j];  the 0-based window start..end of the
\* code is the 1-based window start+1..end+1 over dP.
DetectSpike(idx, tx, unified_timebase, interpolated_positions) ==
    LET n     == Len(unified_timebase)
        i0    == idx - 1                          \* the code's 0-based idx
        start == Max2(1, i0 - window_bins)
        end   == Min2(n - 1, i0 + window_bins)
        \* dP[start:end+1] in 0-based slicing
        hi    == Min2(end + 1, n - 1)
        sign  == IF tx.transaction_type = "withdrawal" THEN 0 - 1 ELSE 1
        mag   == Abs(tx.amount)
        \* forward fallback window dP[f_start:f_end+1]
        f_start == i0
        f_end   == Min2(n - 2, i0 + Max2(8, window_bins * 3))
    IN
    Let([j \in 1..(n - 1) |-> interpolated_positions[j + 1] - interpolated_positions[j]],
        LAMBDA dP :
    Let(IF start + 1 <= hi THEN SubSeq(dP, start + 1, hi) ELSE << >>,
        LAMBDA local :
    Let(Median2(local),
        LAMBDA med2 :
    Let([j \in 1..Len(local) |-> Abs(2 * local[j] - med2)],
        LAMBDA dev2 :
    Let(Median2(dev2),
        LAMBDA mad4 :
    Let(VarNum(local),
        LAMBDA vnum :
        LET m == Len(local)
            \* abs(z) >= z_threshold (3.0), scale = 1.4826*mad, else std, else 1.0
            zPass(j) == IF mad4 > 0 THEN dev2[j] * 20000 >= 3 * 14826 * mad4
                        ELSE IF vnum > 0 THEN dev2[j] * dev2[j] * m * m >= 36 * vnum
                        ELSE dev2[j] >= 6 * Unit
            \* magnitude_band = (0.3, 1.5)
            inBand(j) == /\ 3 * mag <= 10 * Abs(local[j])
                         /\ 10 * Abs(local[j]) <= 15 * mag
            cand(ignore_magnitude) ==
                { j \in 1..m : /\ sign * local[j] > 0
                               /\ zPass(j)
                               /\ (ignore_magnitude \/ mag = 0 \/ inBand(j)) }
            dist(j) == Abs((start + (j - 1)) - i0)
            better(a, b) == \/ dist(a) < dist(b)
                            \/ dist(a) = dist(b) /\ dev2[a] > dev2[b]
                            \/ dist(a) = dist(b) /\ dev2[a] = dev2[b] /\ a <= b
            \* best_i (0-based) + 1 = 1-based best_i; 0 when no candidate
            scan(ignore_magnitude) ==
                Let(cand(ignore_magnitude), LAMBDA c :
                    IF c = {} THEN 0
                    ELSE start + ((CHOOSE a \in c : \A b \in c : better(a, b)) - 1) + 1)
            \* first same-signed non-flat step of the forward window
            fwd == { j \in (f_start + 1)..(f_end + 1) :
                        j \in DOMAIN dP /\ dP[j] # 0 /\ sign * dP[j] > 0 }
        IN IF ~(0 < i0 /\ i0 < n) \/ m = 0 THEN 0
           ELSE Let(scan(FALSE), LAMBDA best1 :
                Let(IF best1 # 0 THEN best1 ELSE scan(TRUE), LAMBDA best :
                    IF best # 0
                    \* min(best_i + 1, n - 1) 0-based, i.e. min(best + 1, n) 1-based
                    THEN Min2(best + 1, n)
                    ELSE IF f_end > f_start /\ fwd # {}
                    \* min(f_start + j + 1, n - 1) 0-based
                    THEN Min2(SetMin(fwd) + 1, n)
                    ELSE 0))))))))

\* choose_index_for_tx(idx, tx): idx and the result are 1-based.
\* pos_idx is the set of indices that are original position samples
\* (np.where(pos_mask)); has_mask is "pos_mask is not None".
choose_index_for_tx(idx, tx, method, unified_timebase, has_mask, pos_idx, interpolated_positions) ==
    LET n == Len(unified_timebase)
        nxt == { i \in pos_idx : i >= idx }
        prv == { i \in pos_idx : i <= idx }
        delta(k) == Abs(unified_timebase[k] - tx.timestamp)
        near == { k \in pos_idx : \A j \in pos_idx : delta(k) <= delta(j) }
    IN IF method = "right_open" THEN Min2(idx + 1, n)
       ELSE IF method = "snap_to_next_pos" /\ has_mask
            THEN IF nxt # {} THEN SetMin(nxt)
                 ELSE IF pos_idx # {} THEN SetMax(pos_idx) ELSE idx
       ELSE IF method = "snap_to_prev_pos" /\ has_mask
            THEN IF prv # {} THEN SetMax(prv)
                 ELSE IF pos_idx # {} THEN SetMin(pos_idx) ELSE idx
       ELSE IF method = "snap_to_nearest_pos" /\ has_mask /\ pos_idx # {}
            THEN SetMax(near)
       ELSE IF method = "detect_spike"
            THEN Let(DetectSpike(idx, tx, unified_timebase, interpolated_positions),
                     LAMBDA spike : IF spike # 0 THEN spike ELSE idx)
       ELSE idx

\* a variant of the mapping loop that stores a withdrawal with its sign
MapTransactionSigned(vecs, transaction, method, unified_timebase, has_mask, pos_idx, interpolated_positions) ==
    Let(Matches(unified_timebase, transaction.timestamp), LAMBDA matches :
        IF Len(matches) > 0
        THEN Let(choose_index_for_tx(matches[1], transaction, method,
                     unified_timebase, has_mask, pos_idx, interpolated_positions),
                 LAMBDA idx :
                 IF transaction.transaction_type = "deposit"
                 THEN [vecs EXCEPT !.deposit_vector[idx] = transaction.amount]
                 ELSE IF transaction.transaction_type = "withdrawal"
                 THEN [vecs EXCEPT !.withdrawal_vector[idx] = transaction.amount]
                 ELSE vecs)
        ELSE vecs)

\* One iteration of the mapping loop: the event is written at its resolved
\* index of the deposit or the withdrawal vector (an event whose instant
\* is not on the timebase is logged and dropped).
MapTransaction(vecs, transaction, method, unified_timebase, has_mask, pos_idx, interpolated_positions) ==
    Let(Matches(unified_timebase, transaction.timestamp), LAMBDA matches :
        IF Len(matches) > 0
        THEN Let(choose_index_for_tx(matches[1], transaction, method,
                     unified_timebase, has_mask, pos_idx, interpolated_positions),
                 LAMBDA idx :
                 IF transaction.transaction_type = "deposit"
                 THEN [vecs EXCEPT !.deposit_vector[idx] = transaction.amount]
                 ELSE IF transaction.transaction_type = "withdrawal"
                 THEN [vecs EXCEPT !.withdrawal_vector[idx] = Abs(transaction.amount)]
                 ELSE vecs)
        ELSE vecs)

RECURSIVE MapTransactions(_, _, _, _, _, _, _)
MapTransactions(vecs, transactions, method, unified_timebase, has_mask, pos_idx, interpolated_positions) ==
    IF transactions = << >> THEN vecs
    ELSE MapTransactions(
            MapTransaction(vecs, Head(transactions), method, unified_timebase,
                           has_mask, pos_idx, interpolated_positions),
            Tail(transactions), method, unified_timebase, has_mask, pos_idx,
            interpolated_positions)

\* create_transaction_vectors_on_timebase
create_transaction_vectors_on_timebase(transactions, unified_timebase, interpolated_positions, position_timestamps_set, alignment_method) ==
    LET zeros    == [i \in DOMAIN unified_timebase |-> 0]
        has_mask == position_timestamps_set # {}
        pos_idx  == { i \in DOMAIN unified_timebase :
                         unified_timebase[i] \in position_timestamps_set }
    IN MapTransactions([deposit_vector |-> zeros, withdrawal_vector |-> zeros],
                       transactions, alignment_method, unified_timebase,
                       has_mask, pos_idx, interpolated_positions)

\* a variant that builds the timebase from the timestamps whatever the source
GainsTxTimestampsIgnoreSource(transactions, tx_timestamp_source) ==
    [i \in DOMAIN transactions |-> transactions[i].timestamp]

\* the timestamps the timebase is built from: created_at or timestamp
GainsTxTimestamps(transactions, tx_timestamp_source) ==
    [i \in DOMAIN transactions |->
        IF tx_timestamp_source = "created_at"
        THEN transactions[i].created_at ELSE transactions[i].timestamp]

\* dataclasses.replace(tx, timestamp=tx.created_at) when created_at is used
GainsTxForMap(transactions, tx_timestamp_source) ==
    IF tx_timestamp_source = "created_at"
    THEN [i \in DOMAIN transactions |->
            [transactions[i] EXCEPT !.timestamp = transactions[i].created_at]]
    ELSE transactions

\* a variant of the gain formula that forgets the deposits made before t0
GainFormulaNoDepositOffset(interpolated_positions, deposit_cdf, withdrawal_cdf, reference_time_index) ==
    [i \in DOMAIN interpolated_positions |->
        interpolated_positions[i] - interpolated_positions[reference_time_index]
          - deposit_cdf[i]
          + (withdrawal_cdf[i] - withdrawal_cdf[reference_time_index])]

\* the gain formula G(t) = P(t) - P(t0) - (D(t) - D(t0)) + (W(t) - W(t0))
GainFormula(interpolated_positions, deposit_cdf, withdrawal_cdf, reference_time_index) ==
    LET P_t0     == interpolated_positions[reference_time_index]
        CDF_D_t0 == deposit_cdf[reference_time_index]
        CDF_W_t0 == withdrawal_cdf[reference_time_index]
    IN [i \in DOMAIN interpolated_positions |->
          interpolated_positions[i] - P_t0
            - (deposit_cdf[i] - CDF_D_t0)
            + (withdrawal_cdf[i] - CDF_W_t0)]

Raised == [ok |-> FALSE]

\* calculate_correct_gains raises (ValueError) when interpolation raises or
\* when reference_time_index is past the end of the timebase.
\* reference_time_index is 1-based here.
calculate_correct_gains(position_timestamps, position_values, transactions, reference_time_index, interpolation_method, alignment_method, tx_timestamp_source) ==
    IF InterpolateRaises(position_timestamps, position_values, interpolation_method)
    THEN Raised
    ELSE
    Let(create_unified_timebase(position_timestamps,
            GainsTxTimestamps(transactions, tx_timestamp_source)),
        LAMBDA unified_timebase :
    Let(interpolate_positions_on_timebase(position_timestamps, position_values,
            unified_timebase, interpolation_method),
        LAMBDA interpolated_positions :
    Let(create_transaction_vectors_on_timebase(
            GainsTxForMap(transactions, tx_timestamp_source), unified_timebase,
            interpolated_positions, Range(position_timestamps), alignment_method),
        LAMBDA vecs :
        IF reference_time_index > Len(unified_timebase)
        THEN Raised
        ELSE Let(CumSum(vecs.deposit_vector), LAMBDA deposit_cdf :
             Let(CumSum(vecs.withdrawal_vector), LAMBDA withdrawal_cdf :
                [ok |-> TRUE,
                 timebase |-> unified_timebase,
                 positions |-> interpolated_positions,
                 deposit_vector |-> vecs.deposit_vector,
                 withdrawal_vector |-> vecs.withdrawal_vector,
                 deposit_cdf |-> deposit_cdf,
                 withdrawal_cdf |-> withdrawal_cdf,
                 gains |-> GainFormula(interpolated_positions, deposit_cdf,
                                       withdrawal_cdf, reference_time_index)])))))

\* ------------------------------------------------------ GreptimeReader
\* An absent optional value (None) is << >>, a present one is << v >>.
None == << >>
Some(v) == << v >>
IsNone(o) == o = << >>
Get(o) == o[1]

\* The evaluation instant now_utc: later than every stored instant.
now_utc == MaxT + 1

\* DateRange(start, end); an open end is None. __post_init__ raises when
\* both ends are given and start >= end.
DateRange(start, end) == [start |-> start, end |-> end]
DateRangeRaises(start, end) ==
    ~IsNone(start) /\ ~IsNone(end) /\ Get(start) >= Get(end)

\* build_date_range_filter: ts >= start AND ts <= end, each when given;
\* no filter at all when the range itself is None.
InRange(ts, date_range) ==
    \/ IsNone(date_range)
    \/ LET r == Get(date_range) IN
       /\ IsNone(r.start) \/ ts >= Get(r.start)
       /\ IsNone(r.end) \/ ts <= Get(r.end)

\* The rows of one asset's tables:
\*   rows[w] : the position samples of wallet w, a function instant -> usd
\*   txs     : the deposit and withdrawal rows in the order
\*             fetch_transactions returns them (sorted by ts, stable)
Wallets == {"w1", "w2"}

\* fetch_asset_series: SUM(usd_value) GROUP BY ts within the range
fetch_asset_series(table, date_range) ==
    LET ts_set == { t \in Times : /\ InRange(t, date_range)
                                  /\ \E w \in Wallets : t \in DOMAIN table.rows[w] }
        tot(t) == LET f[S \in SUBSET Wallets] ==
                        IF S = {} THEN 0
                        ELSE LET w == CHOOSE x \in S : TRUE
                             IN (IF t \in DOMAIN table.rows[w] THEN table.rows[w][t] ELSE 0)
                                + f[S \ {w}]
                  IN f[Wallets]
    IN [t \in ts_set |-> tot(t)]

\* fetch_asset_series_by_wallet: GROUP BY ts, wallet_address; a wallet
\* without a row in range is not a key of the result.
fetch_asset_series_by_wallet(table, date_range) ==
    LET inr(w) == { t \in DOMAIN table.rows[w] : InRange(t, date_range) }
    IN [w \in { x \in Wallets : inr(x) # {} } |-> [t \in inr(w) |-> table.rows[w][t]]]

\* fetch_transactions: the merged, timestamp-ordered rows within the range
fetch_transactions(table, date_range) ==
    SelectSeq(table.txs, LAMBDA tx : InRange(tx.timestamp, date_range))

\* sorted(series.keys()) and the values in that order
SeriesTs(series) == SortSet(DOMAIN series)
SeriesVals(series) == LET ts == SeriesTs(series) IN [i \in DOMAIN ts |-> series[ts[i]]]

\* ------------------------------------------------- reference_state.py
REFERENCE_KEYWORD == "ref"

\* _nearest_value: min() over the keys in insertion (ascending) order keeps
\* the earliest of several equally near instants.
nearest_value(series, target_ts) ==
    IF DOMAIN series = {} THEN None
    ELSE LET d(t) == Abs(t - target_ts)
             near == { t \in DOMAIN series : \A u \in DOMAIN series : d(t) <= d(u) }
         IN Some(series[SetMin(near)])

\* a variant of get_last_reference that takes the first tagged withdrawal
get_last_referenceFirstTagged(table, cfg_date_range, keyword) ==
    IF table.query_fails THEN None
    ELSE Let(SelectSeq(fetch_transactions(table, cfg_date_range),
                       LAMBDA t : /\ t.transaction_type = "withdrawal"
                                  /\ t.notes = keyword),
             LAMBDA tagged :
             IF tagged = << >> THEN None
             ELSE Let(fetch_asset_series(table, cfg_date_range), LAMBDA series :
                      IF DOMAIN series = {} THEN None
                      ELSE Let(tagged[1].timestamp, LAMBDA t0 :
                               Some([t0 |-> t0,
                                     v0 |-> Get(nearest_value(series, t0))]))))

\* get_last_reference for one resolved asset: None when a query raises, no
\* tagged withdrawal exists, or no position sample exists in cfg.date_range.
get_last_reference(table, cfg_date_range, keyword) ==
    IF table.query_fails THEN None
    ELSE Let(SelectSeq(fetch_transactions(table, cfg_date_range),
                       LAMBDA t : /\ t.transaction_type = "withdrawal"
                                  /\ t.notes = keyword),
             LAMBDA tagged :
             IF tagged = << >> THEN None
             ELSE Let(fetch_asset_series(table, cfg_date_range), LAMBDA series :
                      IF DOMAIN series = {} THEN None
                      ELSE Let(tagged[Len(tagged)].timestamp, LAMBDA t0 :
                               Some([t0 |-> t0,
                                     v0 |-> Get(nearest_value(series, t0))]))))

\* ------------------------------------------------ alert_logic.py: caps
\* WalletBreakdown.__post_init__ raises on a negative wmax_usd or v_t1_usd
WalletBreakdownRaises(wmax_usd, v_t1_usd) == wmax_usd < 0 \/ v_t1_usd < 0

\* wmax = max(0.0, safety_factor_c * g_wallet)
WalletCap(safety_factor_c, g_wallet) == Max2(0, safety_factor_c * g_wallet)

\* gains[-1], or 0.0 for an empty series
LastGain(gains) == IF Len(gains) > 0 THEN gains[Len(gains)] ELSE 0

\* The gains of one wallet, from its own samples and its own transactions
WalletGains(wallet_series, all_txs, wallet_addr, cfg) ==
    calculate_correct_gains(SeriesTs(wallet_series), SeriesVals(wallet_series),
        SelectSeq(all_txs, LAMBDA tx : tx.wallet_address = wallet_addr),
        1, "linear", cfg.alignment_method, cfg.tx_timestamp_source)

\* One pass of the loop over the wallets: the WalletBreakdown of the
\* wallet, or kept = FALSE when the computation raises.
WalletBreakdown(wallet_series, all_txs, wallet_addr, cfg, safety_factor_c) ==
    Let(WalletGains(wallet_series, all_txs, wallet_addr, cfg), LAMBDA res :
        IF ~res.ok THEN [kept |-> FALSE]
        ELSE Let(WalletCap(safety_factor_c, LastGain(res.gains)), LAMBDA wmax :
             Let(wallet_series[SetMax(DOMAIN wallet_series)], LAMBDA v_t1 :
                 [kept |-> ~WalletBreakdownRaises(wmax, v_t1),
                  wmax_usd |-> wmax, v_t1_usd |-> v_t1])))

\* _calculate_per_wallet_wmax: one WalletBreakdown per wallet with data; a
\* wallet whose computation raises is skipped.
calculate_per_wallet_wmax(table, cfg, date_range, safety_factor_c) ==
    Let(fetch_asset_series_by_wallet(table, date_range), LAMBDA wallet_series_dict :
    Let(fetch_transactions(table, date_range), LAMBDA all_txs :
    Let([w \in DOMAIN wallet_series_dict |->
            WalletBreakdown(wallet_series_dict[w], all_txs, w, cfg, safety_factor_c)],
        LAMBDA out :
        [w \in { x \in DOMAIN out : out[x].kept } |->
            [wmax_usd |-> out[w].wmax_usd, v_t1_usd |-> out[w].v_t1_usd]])))

\* sum(wb.wmax_usd for wb in dec.wmax_usd)
TotalWmax(wmax_usd) ==
    LET f[S \in SUBSET DOMAIN wmax_usd] ==
            IF S = {} THEN 0
            ELSE LET w == CHOOSE x \in S : TRUE IN wmax_usd[w].wmax_usd + f[S \ {w}]
    IN f[DOMAIN wmax_usd]

\* base_decision = 1 if total_wmax > 0 else 0
BaselineDecision(wmax_usd) == IF TotalWmax(wmax_usd) > 0 THEN 1 ELSE 0

\* ------------------------------------- alert_logic.py: the residual gate
polynomial_order == 1

\* The baseline fit. Residuals are exact fractions res[i] / den.
\*   median        : fitted = median(cp_vals)
\*   polynomial_fit: least squares line against hours since the first sample
GateFit(method, x_time, cp_vals) ==
    IF method = "median"
    THEN [den |-> 2,
          res |-> [i \in DOMAIN cp_vals |-> 2 * cp_vals[i] - Median2(cp_vals)]]
    ELSE LET n   == Len(cp_vals)
             x   == [i \in DOMAIN x_time |-> x_time[i] - x_time[1]]
             Sx  == SeqSum(x)
             Sy  == SeqSum(cp_vals)
             Sxx == SeqSum([i \in DOMAIN x |-> x[i] * x[i]])
             Sxy == SeqSum([i \in DOMAIN x |-> x[i] * cp_vals[i]])
             den == n * Sxx - Sx * Sx
         IN [den |-> den,
             res |-> [i \in DOMAIN cp_vals |->
                        den * cp_vals[i] - (Sy * Sxx - Sx * Sxy)
                                         - (n * Sxy - Sx * Sy) * x[i]]]

\* res_est: the residuals sigma and the percentiles are estimated from
ResEst(residuals, dg) ==
    IF dg.exclude_last_for_sigma /\ Len(residuals) > 1
    THEN SubSeq(residuals, 1, Len(residuals) - 1)
    ELSE residuals

\* sigma < sigma_epsilon, with sigma^2 = VarNum(res_est) / (m * den)^2
SigmaBelowEpsilon(res_est, den, sigma_epsilon) ==
    LET m == Len(res_est) IN
    VarNum(res_est) * sigma_epsilon.den * sigma_epsilon.den
        < sigma_epsilon.num * sigma_epsilon.num * m * m * den * den

\* a variant of the stddev rule that also fires at r_now = k * sigma
StddevTriggerAtLeast(r_now, res_est, k_sigma) ==
    IF /\ VarNum(res_est) > 0
       /\ r_now > 0
       /\ r_now * r_now * Len(res_est) * Len(res_est) >= k_sigma * k_sigma * VarNum(res_est)
    THEN 1 ELSE 0

\* a variant of the stddev rule that fires below k * sigma
StddevTriggerBelow(r_now, res_est, k_sigma) ==
    IF /\ VarNum(res_est) > 0
       /\ r_now > 0
       /\ r_now * r_now * Len(res_est) * Len(res_est) < k_sigma * k_sigma * VarNum(res_est)
    THEN 1 ELSE 0

\* 1 if (sigma > 0 and r_now > k * sigma) else 0
StddevTrigger(r_now, res_est, k_sigma) ==
    LET m == Len(res_est) IN
    IF /\ VarNum(res_est) > 0
       /\ r_now > 0
       /\ r_now * r_now * m * m > k_sigma * k_sigma * VarNum(res_est)
    THEN 1 ELSE 0

\* a variant of the percentile rule that also fires at the upper bound
PercentileTriggerAtLeast(r_now, res_est, central_confidence) ==
    LET m    == Len(res_est)
        pn   == central_confidence.den + central_confidence.num
        pd   == 2 * central_confidence.den
        srt  == NpSort(res_est)
        j0   == (pn * (m - 1)) \div pd
        frac == pn * (m - 1) - j0 * pd
        thr  == IF m > 1
                THEN IF frac = 0 THEN pd * srt[j0 + 1]
                     ELSE pd * srt[j0 + 1] + frac * (srt[j0 + 2] - srt[j0 + 1])
                ELSE 0
    IN IF pd * r_now >= thr THEN 1 ELSE 0

\* r_now > np.quantile(res_est, p_high) decides the percentile trigger;
\* with a single residual to estimate from the thresholds are [0.0, 0.0].
\* p_high = min(1, 1 - max(0, (1 - c) / 2)) = (c.den + c.num) / (2 * c.den)
PercentileTrigger(r_now, res_est, central_confidence) ==
    LET m    == Len(res_est)
        pn   == central_confidence.den + central_confidence.num
        pd   == 2 * central_confidence.den
        srt  == NpSort(res_est)
        j0   == (pn * (m - 1)) \div pd
        frac == pn * (m - 1) - j0 * pd
        \* pd * thr_high
        thr  == IF m > 1
                THEN IF frac = 0 THEN pd * srt[j0 + 1]
                     ELSE pd * srt[j0 + 1] + frac * (srt[j0 + 2] - srt[j0 + 1])
                ELSE 0
    IN IF pd * r_now > thr THEN 1 ELSE 0

NeedPoints(dg) == Max2(dg.min_points, polynomial_order + 1)

\* The gate on a basis series that has enough points: the fit, sigma, the
\* degenerate-sigma guard and the threshold. Result:
\*   log       "degenerate_sigma" | "evaluated"
\*   residual  r_now as the fraction num / den
\*   sigma_sq  sigma^2 as the fraction num / den
\*   triggered 0 | 1
\*   n_est     len(res_est)
ResidualGate(fit_method, x_time, cp_vals, dg) ==
    Let(GateFit(fit_method, x_time, cp_vals), LAMBDA fit :
    Let(ResEst(fit.res, dg), LAMBDA res_est :
    Let(fit.res[Len(fit.res)], LAMBDA r_now :
        [log |-> IF /\ SigmaBelowEpsilon(res_est, fit.den, dg.sigma_epsilon)
                    /\ dg.threshold_mode = "stddev"
                 THEN "degenerate_sigma" ELSE "evaluated",
         triggered |-> IF dg.threshold_mode = "percentile"
                       THEN PercentileTrigger(r_now, res_est, dg.central_confidence)
                       ELSE IF SigmaBelowEpsilon(res_est, fit.den, dg.sigma_epsilon)
                       THEN 0
                       ELSE StddevTrigger(r_now, res_est, dg.k_sigma),
         residual |-> [num |-> r_now, den |-> fit.den],
         sigma_sq |-> [num |-> VarNum(res_est),
                       den |-> Len(res_est) * Len(res_est) * fit.den * fit.den],
         n_est |-> Len(res_est)])))

\* ------------------------------------ alert_logic.py: one asset, Phase B
\* AssetDecision(decision=0). gate_log is the reason the gate logs
\* ("insufficient_points", "degenerate_sigma"), "evaluated" when the
\* threshold decided, "" when the gate did not run; gate_n_est is
\* len(res_est), the number of residuals sigma was estimated from.
NewDecision ==
    [decision |-> 0, wmax_usd |-> << >>, v_ref_usd |-> None, v_t1_usd |-> None,
     g_usd |-> None, ref_mode |-> "", t0_timestamp_seconds |-> None,
     t1_timestamp_seconds |-> None,
     residual_usd |-> None, sigma_usd |-> None, k_sigma |-> None,
     residual_trigger |-> None, gate_applied |-> None, error |-> "",
     gate_log |-> "", gate_n_est |-> None,
     prices_by_source |-> << >>, price_delta_abs |-> None, price_delta_rel |-> None,
     price_mismatch |-> None, price_compare_unavailable |-> None]

\* arr[mask] for the index set S
Masked(arr, S) == LET idx == SortSet(S) IN [i \in DOMAIN idx |-> arr[idx[i]]]

\* corrected positions gains + P_t0 in whole usd (both are whole usd at a
\* position sample, where nothing is interpolated)
CorrectedPositions(gains, P_t0) == [i \in DOMAIN gains |-> (gains[i] + P_t0) \div Unit]

\* data_range fallback: restrict to the position samples, then apply the
\* lookback only if enough points remain inside it.
FallbackBasis(timebase, gains, P_t0, pos_ts, dg) ==
    LET cp_full  == CorrectedPositions(gains, P_t0)
        mask_pos == { i \in DOMAIN timebase : timebase[i] \in Range(pos_ts) }
        x_pos    == Masked(timebase, mask_pos)
        t_cut    == x_pos[Len(x_pos)] - Get(dg.lookback_hours)
        mask_lkb == { i \in mask_pos : timebase[i] >= t_cut }
        use      == IF /\ ~IsNone(dg.lookback_hours)
                       /\ Len(x_pos) > 0
                       /\ Cardinality(mask_lkb) >= NeedPoints(dg)
                    THEN mask_lkb ELSE mask_pos
    IN [x_time |-> Masked(timebase, use), cp_vals |-> Masked(cp_full, use)]

\* keyword mode, basis corrected_position: the lookback boundary is taken
\* from the last instant of the unified timebase and always applied.
KeywordBasis(timebase, gains, P_t0, pos_ts, dg) ==
    LET cp_full == CorrectedPositions(gains, P_t0)
        t_cut   == timebase[Len(timebase)] - Get(dg.lookback_hours)
        pos_ts_set == IF IsNone(dg.lookback_hours) THEN Range(pos_ts)
                      ELSE { ts \in Range(pos_ts) : ts >= t_cut }
        mask_pos == { i \in DOMAIN timebase : timebase[i] \in pos_ts_set }
    IN [x_time |-> Masked(timebase, mask_pos), cp_vals |-> Masked(cp_full, mask_pos)]

\* the telemetry the gate writes when the threshold decided
WithGateTelemetry(dec, gate, dg) ==
    [dec EXCEPT !.residual_usd = Some(gate.residual),
                !.sigma_usd = Some(gate.sigma_sq),
                !.k_sigma = Some(dg.k_sigma),
                !.residual_trigger = Some(gate.triggered),
                !.gate_applied = Some(TRUE),
                !.gate_log = "evaluated",
                !.gate_n_est = Some(gate.n_est),
                !.decision = gate.triggered]

\* Residual gating in the data_range fallback (always a polynomial fit):
\* a skipped gate keeps the baseline decision.
FallbackGate(dec, timebase, gains, pos_ts, dg) ==
    Let(FallbackBasis(timebase, gains,
                      IF IsNone(dec.v_ref_usd) THEN 0 ELSE Get(dec.v_ref_usd),
                      pos_ts, dg),
        LAMBDA basis :
        IF Len(basis.cp_vals) < NeedPoints(dg)
        THEN [dec EXCEPT !.decision = BaselineDecision(dec.wmax_usd),
                         !.gate_log = "insufficient_points"]
        ELSE Let(ResidualGate("polynomial_fit", basis.x_time, basis.cp_vals, dg),
                 LAMBDA gate :
                 IF gate.log = "degenerate_sigma"
                 THEN [dec EXCEPT !.decision = BaselineDecision(dec.wmax_usd),
                                  !.gate_log = "degenerate_sigma"]
                 ELSE WithGateTelemetry(dec, gate, dg)))

\* Residual gating in keyword mode: a skipped gate sets decision = 0 and
\* gate_applied = False.
KeywordGate(dec, timebase, gains, pos_ts, dg) ==
    Let(KeywordBasis(timebase, gains,
                     IF IsNone(dec.v_ref_usd) THEN 0 ELSE Get(dec.v_ref_usd),
                     pos_ts, dg),
        LAMBDA basis :
        IF Len(basis.cp_vals) < NeedPoints(dg)
        THEN [dec EXCEPT !.decision = 0, !.gate_applied = Some(FALSE),
                         !.gate_log = "insufficient_points"]
        ELSE Let(ResidualGate(dg.method, basis.x_time, basis.cp_vals, dg),
                 LAMBDA gate :
                 IF gate.log = "degenerate_sigma"
                 THEN [dec EXCEPT !.decision = 0, !.gate_applied = Some(FALSE),
                                  !.gate_log = "degenerate_sigma"]
                 ELSE WithGateTelemetry(dec, gate, dg)))

ErrorDecision(dec, msg) == [dec EXCEPT !.decision = 0 - 1, !.error = msg]

\* The fields both reference modes fill in once the gains are computed
WithGains(dec, table, cfg, per_range, series, gains, safety_factor_c) ==
    [dec EXCEPT !.v_t1_usd = Some(series[SetMax(DOMAIN series)]),
                !.t1_timestamp_seconds = Some(SetMax(DOMAIN series)),
                !.wmax_usd = calculate_per_wallet_wmax(table, cfg, per_range,
                                                       safety_factor_c),
                !.g_usd = Some(LastGain(gains))]

\* The branch "no tagged withdrawal, fallback = data_range"
EvaluateDataRange(table, settings) ==
    LET cfg         == settings.client
        t0_fallback == Get(cfg.date_range).start
        per_range   == Some(DateRange(t0_fallback, Some(now_utc)))
        dec0        == [NewDecision EXCEPT !.ref_mode = "data_range",
                                           !.t0_timestamp_seconds = t0_fallback]
        dg          == settings.decision_gate
    IN IF DateRangeRaises(t0_fallback, Some(now_utc)) THEN ErrorDecision(NewDecision, "raised")
       ELSE IF table.query_fails THEN ErrorDecision(NewDecision, "raised")
       ELSE
       Let(fetch_asset_series(table, per_range), LAMBDA series :
           IF DOMAIN series = {}
           THEN [dec0 EXCEPT !.decision = 0, !.g_usd = Some(0)]
           ELSE
           Let(calculate_correct_gains(SeriesTs(series), SeriesVals(series),
                   fetch_transactions(table, per_range), 1, "linear",
                   cfg.alignment_method, "timestamp"),
               LAMBDA res :
               IF ~res.ok THEN ErrorDecision(dec0, "raised")
               ELSE
               Let(WithGains([dec0 EXCEPT !.v_ref_usd = Some(series[SetMin(DOMAIN series)])],
                             table, cfg, per_range, series, res.gains,
                             settings.safety_factor_c),
                   LAMBDA dec1 :
                   IF dg.enabled /\ dg.apply_in_fallback
                   THEN FallbackGate(dec1, res.timebase, res.gains, SeriesTs(series), dg)
                   ELSE [dec1 EXCEPT !.decision = BaselineDecision(dec1.wmax_usd)])))

\* The branch "no tagged withdrawal, fallback = null"
EvaluateNull(table, settings) ==
    LET series == fetch_asset_series(table, settings.client.date_range)
    IN IF table.query_fails THEN ErrorDecision(NewDecision, "raised")
       ELSE [NewDecision EXCEPT
               !.v_t1_usd = IF DOMAIN series # {}
                            THEN Some(series[SetMax(DOMAIN series)]) ELSE None,
               !.decision = 0, !.g_usd = Some(0), !.ref_mode = "null"]

\* Keyword mode: the reference (t0, v0) comes from the tagged withdrawal
EvaluateKeyword(table, settings, t0, v0) ==
    LET cfg       == settings.client
        per_range == Some(DateRange(Some(t0), Some(now_utc)))
        dec0      == [NewDecision EXCEPT !.v_ref_usd = Some(v0), !.ref_mode = "keyword",
                                         !.t0_timestamp_seconds = Some(t0)]
        dg        == settings.decision_gate
    IN IF DateRangeRaises(Some(t0), Some(now_utc)) THEN ErrorDecision(dec0, "raised")
       ELSE IF table.query_fails THEN ErrorDecision(dec0, "raised")
       ELSE
       Let(fetch_asset_series(table, per_range), LAMBDA series :
           IF DOMAIN series = {} THEN ErrorDecision(dec0, "no series in range")
           ELSE
           Let(calculate_correct_gains(SeriesTs(series), SeriesVals(series),
                   fetch_transactions(table, per_range), 1, "linear",
                   cfg.alignment_method, "timestamp"),
               LAMBDA res :
               IF ~res.ok THEN ErrorDecision(dec0, "raised")
               ELSE
               Let(WithGains(dec0, table, cfg, per_range, series, res.gains,
                             settings.safety_factor_c),
                   LAMBDA dec1 :
                   IF dg.enabled
                   THEN KeywordGate(dec1, res.timebase, res.gains, SeriesTs(series), dg)
                   ELSE [dec1 EXCEPT !.decision = BaselineDecision(dec1.wmax_usd)])))

\* a variant of the loop body that takes the data_range fallback whenever
\* the configured range has a start, whatever the fallback mode
EvaluateResolvedIgnoresFallback(table, settings, t0_v) ==
    IF IsNone(t0_v)
    THEN IF /\ ~IsNone(settings.client.date_range)
            /\ ~IsNone(Get(settings.client.date_range).start)
         THEN EvaluateDataRange(table, settings)
         ELSE EvaluateNull(table, settings)
    ELSE EvaluateKeyword(table, settings, Get(t0_v).t0, Get(t0_v).v0)

\* The body of the loop "for asset in assets" for a resolved asset
EvaluateResolved(table, settings, t0_v) ==
    IF IsNone(t0_v)
    THEN IF /\ settings.reference_keyword_fallback = "data_range"
            /\ ~IsNone(settings.client.date_range)
            /\ ~IsNone(Get(settings.client.date_range).start)
         THEN EvaluateDataRange(table, settings)
         ELSE EvaluateNull(table, settings)
    ELSE EvaluateKeyword(table, settings, Get(t0_v).t0, Get(t0_v).v0)

\* ------------------------------- alert_logic.py: Phase C, price compare
Sources == {"liqwid", "minswap"}

\* d_rel > eps  /  d_abs > eps, eps the fraction num / den
PriceMismatch(max_p, min_p, epsilon_mode, tolerance_epsilon) ==
    LET d_abs == max_p - min_p IN
    IF epsilon_mode = "absolute"
    THEN IF d_abs * tolerance_epsilon.den > tolerance_epsilon.num THEN 1 ELSE 0
    ELSE IF max_p > 0
         THEN IF d_abs * tolerance_epsilon.den > tolerance_epsilon.num * max_p THEN 1 ELSE 0
         ELSE IF 0 > tolerance_epsilon.num THEN 1 ELSE 0

\* a variant of the counter update that keeps the count on a match
NextCountNoReset(prev, mismatch) == IF mismatch = 1 THEN prev + 1 ELSE prev

\* curr = (prev + 1) if mismatch else 0
NextCount(prev, mismatch) == IF mismatch = 1 THEN prev + 1 ELSE 0

\* a variant of the override test that waits one cycle longer
ForcesHoldLate(mismatch, curr, pc) ==
    /\ mismatch = 1
    /\ curr > pc.persistence_threshold
    /\ pc.action_on_mismatch = "hold"

\* a variant of the override test that does not wait for the threshold
ForcesHoldAtOnce(mismatch, curr, pc) ==
    /\ mismatch = 1
    /\ pc.action_on_mismatch = "hold"

\* a variant of the override test that does not look at action_on_mismatch
ForcesHoldAnyAction(mismatch, curr, pc) ==
    /\ mismatch = 1
    /\ curr >= pc.persistence_threshold

\* the override test:
\* mismatch and curr >= persistence_threshold and action_on_mismatch == "hold"
ForcesHold(mismatch, curr, pc) ==
    /\ mismatch = 1
    /\ curr >= pc.persistence_threshold
    /\ pc.action_on_mismatch = "hold"

\* a variant of the loop body that lets a counter carried over from earlier
\* cycles force HOLD when the comparison is unavailable
PriceCompareAssetStaleHold(dec, prices, prev, pc) ==
    IF dec.decision = 0 - 1 THEN [dec |-> dec, count |-> prev]
    ELSE IF Cardinality(DOMAIN prices) < 2
    THEN [dec |-> [dec EXCEPT !.prices_by_source = prices,
                              !.price_compare_unavailable = Some(1),
                              !.price_mismatch = Some(0),
                              !.decision = IF prev >= pc.persistence_threshold
                                           THEN 0 ELSE @],
          count |-> prev]
    ELSE LET max_p    == SetMax({ prices[src] : src \in DOMAIN prices })
             min_p    == SetMin({ prices[src] : src \in DOMAIN prices })
             mismatch == PriceMismatch(max_p, min_p, pc.epsilon_mode, pc.tolerance_epsilon)
             curr     == NextCount(prev, mismatch)
         IN [dec |-> [dec EXCEPT !.prices_by_source = prices,
                                 !.price_compare_unavailable = Some(0),
                                 !.price_delta_abs = Some(max_p - min_p),
                                 !.price_mismatch = Some(mismatch),
                                 !.decision = IF ForcesHold(mismatch, curr, pc)
                                              THEN 0 ELSE @],
             count |-> curr]

\* One iteration of "for asset, dec in decisions.items()":
\* prices is the dict of the sources that returned a price; prev is
\* _PRICE_MISMATCH_COUNTS.get(asset, 0). Result: the decision and the
\* asset's entry of the counter map afterwards.
PriceCompareAsset(dec, prices, prev, pc) ==
    IF dec.decision = 0 - 1 THEN [dec |-> dec, count |-> prev]
    ELSE IF Cardinality(DOMAIN prices) < 2
    THEN [dec |-> [dec EXCEPT !.prices_by_source = prices,
                              !.price_compare_unavailable = Some(1),
                              !.price_mismatch = Some(0),
                              !.price_delta_abs = None,
                              !.price_delta_rel = None],
          count |-> prev]
    ELSE LET max_p    == SetMax({ prices[src] : src \in DOMAIN prices })
             min_p    == SetMin({ prices[src] : src \in DOMAIN prices })
             d_abs    == max_p - min_p
             d_rel    == IF max_p > 0 THEN [num |-> d_abs, den |-> max_p]
                         ELSE [num |-> 0, den |-> 1]
             mismatch == PriceMismatch(max_p, min_p, pc.epsilon_mode, pc.tolerance_epsilon)
             curr     == NextCount(prev, mismatch)
         IN [dec |-> [dec EXCEPT !.prices_by_source = prices,
                                 !.price_compare_unavailable = Some(0),
                                 !.price_delta_abs = Some(d_abs),
                                 !.price_delta_rel = Some(d_rel),
                                 !.price_mismatch = Some(mismatch),
                                 !.decision = IF ForcesHold(mismatch, curr, pc)
                                              THEN 0 ELSE @],
             count |-> curr]

\* the prices dict of one asset: the logical sources that returned a quote
PricesOf(quote) == [src \in { x \in Sources : ~IsNone(quote[x]) } |-> Get(quote[src])]

\* ------------------------------------------ alert_logic.py: evaluate_once
\* The loop "for asset in assets" (Phase B): each pass stores one decision;
\* an asset that did not resolve, or whose pipeline raised, is stored as
\* ERROR and the loop goes on.
EvaluateAsset(table, settings) ==
    IF ~table.resolves
    THEN ErrorDecision(NewDecision, "asset resolution failed")
    ELSE EvaluateResolved(table, settings,
             get_last_reference(table, settings.client.date_range, REFERENCE_KEYWORD))

RECURSIVE EvaluateAssets(_, _, _, _)
EvaluateAssets(decs, assets, tables, settings) ==
    IF assets = << >> THEN decs
    ELSE EvaluateAssets(
            decs @@ (Head(assets) :> EvaluateAsset(tables[Head(assets)], settings)),
            Tail(assets), tables, settings)

\* The loop of Phase C over decisions.items(), in insertion order
RECURSIVE PriceCompareAll(_, _, _, _, _)
PriceCompareAll(state, assets, decs, quotes_, pc) ==
    IF assets = << >> THEN state
    ELSE Let(PriceCompareAsset(decs[Head(assets)], PricesOf(quotes_[Head(assets)]),
                               state.counts[Head(assets)], pc),
             LAMBDA r :
             PriceCompareAll(
                [decisions |-> state.decisions @@ (Head(assets) :> r.dec),
                 counts    |-> [state.counts EXCEPT ![Head(assets)] = r.count]],
                Tail(assets), decs, quotes_, pc))

\* Phase B: the decisions of all assets before price compare; nothing is
\* evaluated when the assets list is empty.
PhaseB(tables, settings_) ==
    IF settings_.client.assets = << >> THEN << >>
    ELSE EvaluateAssets(<< >>, settings_.client.assets, tables, settings_)

\* What evaluate_once returns given the decisions of Phase B: the "_all_"
\* error for an empty assets list, else the decisions after Phase C.
PhaseC(gated_, settings_, counts, quotes_) ==
    IF settings_.client.assets = << >>
    THEN [gated |-> << >>,
          decisions |-> ("_all_" :> ErrorDecision(NewDecision, "assets list is empty")),
          counts |-> counts]
    ELSE IF settings_.price_compare.enabled
    THEN Let(PriceCompareAll([decisions |-> << >>, counts |-> counts],
                             settings_.client.assets, gated_, quotes_,
                             settings_.price_compare),
             LAMBDA after :
             [gated |-> gated_, decisions |-> after.decisions, counts |-> after.counts])
    ELSE [gated |-> gated_, decisions |-> gated_, counts |-> counts]

\* evaluate_once: the decisions after Phase B (gated), the decisions
\* returned, and the counter map afterwards.
evaluate_once(tables, settings_, counts, quotes_) ==
    PhaseC(PhaseB(tables, settings_), settings_, counts, quotes_)

\* ================================================================ state
VARIABLES
    store,                  \* Greptime: asset -> its tables
    settings,               \* the loaded configuration
    PRICE_MISMATCH_COUNTS,  \* the module-level counter map, asset -> count
    gated,                  \* decisions at the end of Phase B of the last cycle
    decisions,              \* what the last evaluate_once returned
    quotes,                 \* the quotes the price sources gave in the last cycle
    gin,                    \* arguments of a calculate_correct_gains call
    gout,                   \* its result
    raw,                    \* the configuration file as written
    at,                     \* where each thread of the process is
    latest_decisions,       \* MetricsExporter.latest_decisions
    payload,                \* the last /api/decisions response
    log,                    \* the last record the evaluation loop logged
    ledger,                 \* the transaction rows the syncer wrote to Greptime
    report                  \* the SyncReport of the last sync_wallet run

daemon_vars == << raw, at, latest_decisions, payload, log >>
sync_vars == << ledger, report >>
vars == << store, settings, PRICE_MISMATCH_COUNTS, gated, decisions, quotes, gin, gout, raw, at, latest_decisions, payload, log, ledger, report >>

Assets == {"a1", "a2"}

\* ------------------------------------------------------- input alphabets
Vals == {1, 2}
Money == { v * Unit : v \in Vals }

\* every series over a set of instants
SeriesOver(T) == UNION { [S -> Money] : S \in SUBSET T }

EmptyRows == [w \in Wallets |-> << >>]

Transaction(ts, created_at, wallet, amount, type, notes) ==
    [timestamp |-> ts, created_at |-> created_at, wallet_address |-> wallet,
     amount |-> amount, transaction_type |-> type, notes |-> notes]

Deposit(ts, wallet, v) == Transaction(ts, ts, wallet, v * Unit, "deposit", "")
Withdrawal(ts, wallet, v, notes) ==
    Transaction(ts, ts, wallet, 0 - v * Unit, "withdrawal", notes)

\* configuration values (analysis.decision.gate, analysis.price_compare)
Gate(enabled, apply_in_fallback, method, threshold_mode, exclude_last, min_points, lookback_hours, k_sigma) ==
    [enabled |-> enabled, apply_in_fallback |-> apply_in_fallback,
     method |-> method, k_sigma |-> k_sigma, min_points |-> min_points,
     exclude_last_for_sigma |-> exclude_last, lookback_hours |-> lookback_hours,
     sigma_epsilon |-> [num |-> 1, den |-> 10],
     threshold_mode |-> threshold_mode,
     central_confidence |-> [num |-> 17, den |-> 25]]

GateOff == Gate(FALSE, FALSE, "median", "stddev", TRUE, 2, None, 1)

PriceCompare(enabled, epsilon_mode, action, persistence_threshold) ==
    [enabled |-> enabled, epsilon_mode |-> epsilon_mode,
     tolerance_epsilon |-> [num |-> 1, den |-> 100],
     action_on_mismatch |-> action,
     persistence_threshold |-> persistence_threshold]

PriceCompareOff == PriceCompare(FALSE, "relative", "hold", 1)

Settings(assets, date_range, alignment_method, fallback, c, gate, pc) ==
    [client |-> [assets |-> assets, date_range |-> date_range,
                 alignment_method |-> alignment_method,
                 tx_timestamp_source |-> "timestamp"],
     reference_keyword_fallback |-> fallback,
     safety_factor_c |-> c,
     decision_gate |-> gate,
     price_compare |-> pc]

\* quotes of one asset: each logical source answers or not (prices in cents)
QuoteOf(l, m) == ("liqwid" :> l) @@ ("minswap" :> m)

QuoteChoices ==
    { QuoteOf(None, None), QuoteOf(Some(100), None),
      QuoteOf(Some(100), Some(100)), QuoteOf(Some(100), Some(105)) }

NoQuotes == [a \in Assets |-> [src \in Sources |-> None]]
ZeroCounts == [a \in Assets |-> 0]
NoGains == [ok |-> FALSE, called |-> FALSE]

\* ---------------------------------------------- stores and configurations
Table(resolves, query_fails, rows, txs) ==
    [resolves |-> resolves, query_fails |-> query_fails, rows |-> rows, txs |-> txs]

OneWallet(series) == ("w1" :> series) @@ ("w2" :> << >>)

\* an asset no table resolves for / whose queries raise / without rows
UnresolvedTable == Table(FALSE, FALSE, EmptyRows, << >>)
FailingTable    == Table(TRUE, TRUE, EmptyRows, << >>)
EmptyTable      == Table(TRUE, FALSE, EmptyRows, << >>)
\* w1 grows from 1 to 2 usd, w2 stays at 1 usd, nothing tagged
GrowingTable ==
    Table(TRUE, FALSE,
          ("w1" :> ((0 :> Unit) @@ (MaxT :> 2 * Unit))) @@
          ("w2" :> ((0 :> Unit) @@ (MaxT :> Unit))),
          << >>)
\* the same positions after a tagged withdrawal at instant 0
TaggedTable ==
    [GrowingTable EXCEPT !.txs = << Withdrawal(0, "w1", 1, REFERENCE_KEYWORD) >>]
\* a tagged withdrawal later than every position sample
LateTaggedTable ==
    Table(TRUE, FALSE, OneWallet(0 :> Unit),
          << Withdrawal(MaxT, "w1", 1, REFERENCE_KEYWORD) >>)

CycleTables == { UnresolvedTable, FailingTable, EmptyTable, GrowingTable,
                 TaggedTable, LateTaggedTable }

FromStart == Some(DateRange(Some(0), None))

CycleSettings ==
    { Settings(<< "a1", "a2" >>, FromStart, "none", fb, 1, GateOff, pc) :
        fb \in {"null", "data_range"},
        pc \in { PriceCompareOff } \cup
               { PriceCompare(TRUE, m, a, n) :
                   m \in {"relative", "absolute"}, a \in {"hold", "flag_only"},
                   n \in {1, 2} } }

\* the transaction lists of the single-asset stores: nothing, one tagged
\* withdrawal, a tagged withdrawal at instant 0 and a later deposit, two
\* tagged withdrawals, or a tagged withdrawal and a later untagged one
AssetTxs ==
    {<< >>}
    \cup { << Withdrawal(t, "w1", 1, REFERENCE_KEYWORD) >> : t \in Times }
    \cup { << Withdrawal(0, "w1", 1, REFERENCE_KEYWORD), Deposit(u, "w1", 1) >> :
             u \in Times }
    \cup { << Withdrawal(0, "w1", 1, REFERENCE_KEYWORD),
              Withdrawal(u, "w1", 1, REFERENCE_KEYWORD) >> : u \in Times \ {0} }
    \cup { << Withdrawal(0, "w1", 1, REFERENCE_KEYWORD), Withdrawal(MaxT, "w1", 1, "") >> }

AssetTables ==
    { Table(TRUE, FALSE, OneWallet(series), txs) :
        series \in SeriesOver(Times), txs \in AssetTxs }

GateChoices ==
    { GateOff } \cup
    { Gate(TRUE, fm[1], fm[2], tk[1], ex, ml[1], ml[2], tk[2]) :
        fm \in { << TRUE, "polynomial_fit" >>, << FALSE, "median" >> },
        tk \in { << "stddev", 1 >>, << "stddev", 2 >>, << "percentile", 2 >> },
        ex \in BOOLEAN,
        ml \in { << 2, None >>, << 3, None >>, << 2, Some(1) >> } }

AssetSettings ==
    { Settings(<< "a1" >>, df[1], "none", df[2], 1, g, PriceCompareOff) :
        df \in { << FromStart, "null" >>, << FromStart, "data_range" >>,
                 << None, "data_range" >>,
                 << Some(DateRange(Some(MaxT), None)), "data_range" >> },
        g \in GateChoices }

\* the arguments of calculate_correct_gains
AlignmentMethods == {"none", "right_open", "detect_spike", "snap_to_next_pos",
                     "snap_to_prev_pos", "snap_to_nearest_pos"}

GainEvents ==
    { Transaction(ts, Min2(ts + 1, MaxT), "w1", Unit, "deposit", "") : ts \in Times }
    \cup { Transaction(ts, Min2(ts + 1, MaxT), "w1", 0 - Unit, "withdrawal", "") :
             ts \in Times }

\* at most MaxTx events, in the order fetch_transactions returns them
GainTransactions ==
    { txs \in UNION { [1..n -> GainEvents] : n \in 0..MaxTx } :
        \A i \in DOMAIN txs : i = 1 \/ txs[i - 1].timestamp <= txs[i].timestamp }

\* the data of a call: the position samples and the events
GainData ==
    { [position_timestamps |-> SeriesTs(series), position_values |-> SeriesVals(series),
       transactions |-> txs] :
        series \in SeriesOver(Times), txs \in GainTransactions }

\* the options of a call: alignment method and timestamp source
GainOptions ==
    { << m, "timestamp" >> : m \in AlignmentMethods } \cup { << "none", "created_at" >> }

NoInput == [position_timestamps |-> << >>]

\* the deposit scenario, in ticks of half an hour: samples at 0h, 1h and 2h
\* worth 100 or 200, and at most one deposit of 100 at any half hour
ScenarioInstants == {0, 2, 4}
ScenarioSeries == UNION { [S -> {100, 200}] : S \in SUBSET ScenarioInstants }
ScenarioTxs ==
    { << >> } \cup { << Transaction(t, t, "w1", 100, "deposit", "") >> : t \in 0..4 }
ScenarioData ==
    { [position_timestamps |-> SeriesTs(series), position_values |-> SeriesVals(series),
       transactions |-> txs] :
        series \in ScenarioSeries, txs \in ScenarioTxs }

\* stores of one asset held in two wallets: every small series for w1, a
\* series over the first and the last instant for w2
WalletTxs ==
    {<< >>, << Withdrawal(0, "w1", 1, REFERENCE_KEYWORD) >>}
    \cup { << Deposit(t, w, 1) >> : t \in Times, w \in Wallets }
    \cup { << Withdrawal(t, "w2", 1, "") >> : t \in Times }
    \cup { << Deposit(p[1], "w1", 1), Withdrawal(p[2], "w2", 1, "") >> :
             p \in { q \in Times \X Times : q[1] <= q[2] } }
    \cup { << Deposit(t, "w1", 1), Deposit(t, "w2", 1) >> : t \in Times }
    \cup { << Withdrawal(0, "w1", 1, REFERENCE_KEYWORD), Deposit(u, "w2", 1) >> :
             u \in Times }

WalletTables ==
    { Table(TRUE, FALSE, ("w1" :> s1) @@ ("w2" :> s2), txs) :
        s1 \in SeriesOver(Times), s2 \in SeriesOver({0, MaxT}), txs \in WalletTxs }

WalletSettings ==
    { Settings(<< "a1" >>, FromStart, m, "data_range", 1, g, PriceCompareOff) :
        m \in {"none", "right_open"},
        g \in { GateOff, Gate(TRUE, TRUE, "median", "stddev", FALSE, 2, None, 1) } }

\* ------------------------------------------------------------- actions
\* a variant of the cycle whose result also depends on the decisions the
\* previous cycle returned: an asset held then is held again
EvaluateOnceSticky ==
    \E g \in { PhaseB(store, settings) } :
    \E q \in IF settings.price_compare.enabled
              THEN [Assets -> QuoteChoices] ELSE { NoQuotes } :
      \E out \in { PhaseC(g, settings, PRICE_MISMATCH_COUNTS, q) } :
        /\ \A a \in Assets : out.counts[a] <= MaxCount
        /\ gated' = out.gated
        /\ decisions' = [a \in DOMAIN out.decisions |->
                            IF a \in DOMAIN decisions /\ decisions[a].decision = 0
                            THEN [out.decisions[a] EXCEPT !.decision = 0]
                            ELSE out.decisions[a]]
        /\ PRICE_MISMATCH_COUNTS' = out.counts
        /\ quotes' = q
        /\ UNCHANGED << store, settings, gin, gout, daemon_vars, sync_vars >>

\* One evaluation cycle: evaluate_once(store, settings, counts, q) for the
\* quotes q the price sources give in this cycle (Phase B does not read them)
EvaluateOnce ==
    \E g \in { PhaseB(store, settings) } :
    \E q \in IF settings.price_compare.enabled
              THEN [Assets -> QuoteChoices] ELSE { NoQuotes } :
      \E out \in { PhaseC(g, settings, PRICE_MISMATCH_COUNTS, q) } :
        /\ \A a \in Assets : out.counts[a] <= MaxCount
        /\ gated' = out.gated
        /\ decisions' = out.decisions
        /\ PRICE_MISMATCH_COUNTS' = out.counts
        /\ quotes' = q
        /\ UNCHANGED << store, settings, gin, gout, daemon_vars, sync_vars >>

\* One call of calculate_correct_gains on the data gin, with any reference
\* index and any alignment options
CalculateCorrectGains ==
    /\ ~gout.called
    /\ \E r \in 1..(MaxT + 2), o \in GainOptions :
         gout' = [called |-> TRUE, reference_time_index |-> r,
                  alignment_method |-> o[1], tx_timestamp_source |-> o[2]] @@
                 calculate_correct_gains(gin.position_timestamps, gin.position_values,
                     gin.transactions, r, "linear", o[1], o[2])
    /\ UNCHANGED << store, settings, PRICE_MISMATCH_COUNTS, gated, decisions, quotes, gin, daemon_vars, sync_vars >>

\* the process is not running / no sync has run
Threads == {"main", "eval", "http"}
NoRaw == [loaded |-> FALSE]
NoReport == [ran |-> FALSE]
DaemonOff ==
    /\ raw = NoRaw
    /\ at = [t \in Threads |-> "off"]
    /\ latest_decisions = << >>
    /\ payload = << >>
    /\ log = ""
SyncOff ==
    /\ ledger = << >>
    /\ report = NoReport

\* ------------------------------------------- settings.py: load_settings
\* the policy part of a configuration file: one valid file and the values,
\* valid and invalid, each of its fields is varied over
BaseRaw ==
    [loaded |-> TRUE, telemetry |-> TRUE, fallback |-> "null", gate_enabled |-> TRUE,
     method |-> "median", threshold_mode |-> "stddev", k_sigma |-> 1,
     alignment_method |-> "none"]
RawFields ==
    [loaded : {TRUE}, telemetry : BOOLEAN,
     fallback : {"null", "data_range", "latest"}, gate_enabled : BOOLEAN,
     method : {"median", "polynomial_fit", "spline"},
     threshold_mode : {"stddev", "percentile", "iqr"}, k_sigma : {0, 1},
     alignment_method : {"none", "right_open", "nearest"}]
\* the files that differ from the valid one in at most one field
MaxDeviations == 1
RawConfigs ==
    { r \in RawFields :
        Cardinality({ f \in DOMAIN BaseRaw : r[f] # BaseRaw[f] }) <= MaxDeviations }

\* the price_compare section of the daemon's configuration file
DaemonPriceCompare == PriceCompare(TRUE, "relative", "hold", 1)

\* _load_settings_new_schema followed by _validate_config: the Settings, or
\* the SettingsError raised. An unknown fallback becomes "null" and an
\* unknown gate method "median" while the sections are read, before the
\* validation looks at them.
load_settings(raw_) ==
    LET fallback == IF raw_.fallback \in {"null", "data_range"}
                    THEN raw_.fallback ELSE "null"
        method   == IF raw_.method \in {"polynomial_fit", "median"}
                    THEN raw_.method ELSE "median"
        errors   ==
            (IF fallback \notin {"null", "data_range"} THEN {"fallback"} ELSE {})
            \cup (IF raw_.gate_enabled /\ method \notin {"polynomial_fit", "median"}
                  THEN {"method"} ELSE {})
            \cup (IF raw_.gate_enabled /\ raw_.k_sigma <= 0 THEN {"k_sigma"} ELSE {})
            \cup (IF raw_.gate_enabled /\ raw_.threshold_mode \notin {"stddev", "percentile"}
                  THEN {"threshold_mode"} ELSE {})
    IN IF raw_.alignment_method \notin AlignmentMethods
       THEN [ok |-> FALSE, error |-> {"alignment_method"}]
       ELSE IF errors # {}
       THEN [ok |-> FALSE, error |-> errors]
       ELSE [ok |-> TRUE,
             settings |-> Settings(<< "a1", "a2" >>, FromStart, raw_.alignment_method,
                              fallback, 1,
                              Gate(raw_.gate_enabled, FALSE, method, raw_.threshold_mode,
                                   TRUE, 2, None, raw_.k_sigma),
                              DaemonPriceCompare)]

\* --------------------------------------------------- main.py: the process
\* the store the daemon reads: a1 with a tagged withdrawal, a2 without
DaemonStore == ("a1" :> TaggedTable) @@ ("a2" :> GrowingTable)
\* what the price sources can answer in one cycle of the daemon
DaemonQuotes == { [a \in Assets |-> q] : q \in QuoteChoices }
NotLoaded == Settings(<< >>, None, "none", "null", 1, GateOff, PriceCompareOff)

\* main: settings = load_settings(path); a SettingsError ends the process
LoadSettings ==
    /\ at["main"] = "load"
    /\ LET r == load_settings(raw)
       IN IF r.ok
          THEN /\ settings' = r.settings
               /\ at' = [at EXCEPT !["main"] = "loaded"]
               /\ log' = log
          ELSE /\ settings' = settings
               /\ at' = [at EXCEPT !["main"] = "failed"]
               /\ log' = "SettingsError"
    /\ UNCHANGED << store, PRICE_MISMATCH_COUNTS, gated, decisions, quotes, gin, gout, raw, latest_decisions, payload, sync_vars >>

\* a variant of main that, with telemetry enabled, also runs the single
\* evaluation in the main thread
StartDaemonAndEvaluate ==
    /\ at["main"] = "loaded"
    /\ raw.telemetry
    /\ at' = [at EXCEPT !["main"] = "evaluate", !["eval"] = "evaluate", !["http"] = "serve"]
    /\ UNCHANGED << store, settings, PRICE_MISMATCH_COUNTS, gated, decisions, quotes, gin, gout, raw, latest_decisions, payload, log, sync_vars >>

\* main with telemetry enabled: start the HTTP server and the one evaluation
\* thread, then sleep forever
StartDaemon ==
    /\ at["main"] = "loaded"
    /\ raw.telemetry
    /\ at' = [at EXCEPT !["main"] = "idle", !["eval"] = "evaluate", !["http"] = "serve"]
    /\ UNCHANGED << store, settings, PRICE_MISMATCH_COUNTS, gated, decisions, quotes, gin, gout, raw, latest_decisions, payload, log, sync_vars >>

\* main with telemetry disabled: one evaluation in the main thread
RunOnce ==
    /\ at["main"] = "loaded"
    /\ ~raw.telemetry
    /\ at' = [at EXCEPT !["main"] = "evaluate"]
    /\ UNCHANGED << store, settings, PRICE_MISMATCH_COUNTS, gated, decisions, quotes, gin, gout, raw, latest_decisions, payload, log, sync_vars >>

\* the call of evaluate_once thread t is in returns: the cycle's result is
\* in decisions and the counter map; the loop goes on to exporter.update,
\* the single run prints and ends
EvaluateReturns(t) ==
    /\ at[t] = "evaluate"
    /\ \E g \in { PhaseB(store, settings) } :
       \E q \in DaemonQuotes :
       \E out \in { PhaseC(g, settings, PRICE_MISMATCH_COUNTS, q) } :
         /\ \A a \in Assets : out.counts[a] <= MaxCount
         /\ gated' = out.gated
         /\ decisions' = out.decisions
         /\ PRICE_MISMATCH_COUNTS' = out.counts
         /\ quotes' = q
    /\ at' = [at EXCEPT ![t] = IF t = "eval" THEN "update" ELSE "done"]
    /\ UNCHANGED << store, settings, gin, gout, raw, latest_decisions, payload, log, sync_vars >>

\* the call of evaluate_once thread t is in raises: the loop's except
\* clause catches it, the single run ends with the exception
EvaluateRaises(t) ==
    /\ at[t] = "evaluate"
    /\ at' = [at EXCEPT ![t] = IF t = "eval" THEN "except" ELSE "failed"]
    /\ UNCHANGED << store, settings, PRICE_MISMATCH_COUNTS, gated, decisions, quotes, gin, gout, raw, latest_decisions, payload, log, sync_vars >>

\* exporter.update(decisions), which never raises, and the console summary
ExporterUpdate ==
    /\ at["eval"] = "update"
    /\ latest_decisions' = decisions
    /\ log' = "Evaluation"
    /\ at' = [at EXCEPT !["eval"] = "sleep"]
    /\ UNCHANGED << store, settings, PRICE_MISMATCH_COUNTS, gated, decisions, quotes, gin, gout, raw, payload, sync_vars >>

\* a variant of the except clause that ends the loop
LogErrorAndStop ==
    /\ at["eval"] = "except"
    /\ log' = "Evaluation error"
    /\ at' = [at EXCEPT !["eval"] = "stopped"]
    /\ UNCHANGED << store, settings, PRICE_MISMATCH_COUNTS, gated, decisions, quotes, gin, gout, raw, latest_decisions, payload, sync_vars >>

\* except Exception as e: log.exception(...)
LogError ==
    /\ at["eval"] = "except"
    /\ log' = "Evaluation error"
    /\ at' = [at EXCEPT !["eval"] = "sleep"]
    /\ UNCHANGED << store, settings, PRICE_MISMATCH_COUNTS, gated, decisions, quotes, gin, gout, raw, latest_decisions, payload, sync_vars >>

\* time.sleep(interval) returns and the loop calls evaluate_once again
Wake ==
    /\ at["eval"] = "sleep"
    /\ at' = [at EXCEPT !["eval"] = "evaluate"]
    /\ UNCHANGED << store, settings, PRICE_MISMATCH_COUNTS, gated, decisions, quotes, gin, gout, raw, latest_decisions, payload, log, sync_vars >>

\* the /api/decisions response built from a snapshot: the wallet breakdown
\* only for an authenticated request
DecisionsPayload(snapshot, is_authenticated) ==
    [a \in DOMAIN snapshot |->
        [decision |-> snapshot[a].decision,
         ref_mode |-> snapshot[a].ref_mode,
         wmax_usd |-> TotalWmax(snapshot[a].wmax_usd),
         wallet_breakdown |-> IF is_authenticated THEN snapshot[a].wmax_usd ELSE << >>,
         residual_trigger |-> snapshot[a].residual_trigger,
         prices_by_source |-> snapshot[a].prices_by_source,
         price_mismatch |-> snapshot[a].price_mismatch]]

\* a variant of the handler that, for an unauthenticated request, empties
\* the wallet breakdown in the snapshot itself
HandleDecisionsRedacting ==
    /\ at["http"] = "serve"
    /\ \E is_authenticated \in BOOLEAN :
         /\ payload' = DecisionsPayload(latest_decisions, is_authenticated)
         /\ latest_decisions' = IF is_authenticated THEN latest_decisions
                                 ELSE [a \in DOMAIN latest_decisions |->
                                          [latest_decisions[a] EXCEPT !.wmax_usd = << >>]]
    /\ UNCHANGED << store, settings, PRICE_MISMATCH_COUNTS, gated, decisions, quotes, gin, gout, raw, at, log, sync_vars >>

\* GET /api/decisions
HandleDecisions ==
    /\ at["http"] = "serve"
    /\ \E is_authenticated \in BOOLEAN :
         payload' = DecisionsPayload(latest_decisions, is_authenticated)
    /\ UNCHANGED << store, settings, PRICE_MISMATCH_COUNTS, gated, decisions, quotes, gin, gout, raw, at, latest_decisions, log, sync_vars >>

EvalThread == EvaluateReturns("eval") \/ EvaluateRaises("eval") \/ ExporterUpdate \/ LogError \/ Wake
MainThread == LoadSettings \/ StartDaemon \/ RunOnce \/ EvaluateReturns("main") \/ EvaluateRaises("main")

\* ------------------------------ transaction_syncer.py: TransactionSyncer
\* A Liqwid transaction id is a transaction hash; head stands for its first
\* 16 characters and tail for the rest.
LiqwidIds == [head : {"h1", "h2"}, tail : {"x", "y"}]
\* the transaction Liqwid reports under an id: supplies and withdrawals of
\* the configured asset a1, and one supply of an asset that is not configured
LiqwidTx(id) ==
    [id |-> id,
     displayName |-> IF id.head = "h2" /\ id.tail = "y" THEN "zz" ELSE "a1",
     type |-> IF id.tail = "x" THEN "SUPPLY" ELSE "WITHDRAW"]
\* what one fetch returns: up to MaxTx transactions, each id once
LiqwidBatches ==
    { [i \in DOMAIN s |-> LiqwidTx(s[i])] :
        s \in { b \in UNION { [1..n -> LiqwidIds] : n \in 0..MaxTx } :
                  \A i, j \in DOMAIN b : i # j => b[i] # b[j] } }
\* the rows the model lets the table hold
MaxRows == 4
SyncAssets == {"a1"}

\* notes = f"{keyword} Synced from Liqwid (tx: {tx['id'][:16]}...)": of the
\* id, the note keeps the first 16 characters
SyncedNotes(keyword, id) == [keyword |-> keyword, tx |-> << id.head >>]
\* tx.notes.split('tx: ')[1].split(')')[0].replace('...', '') for a note
\* that contains 'tx:'
NotesTxId(notes) == notes.tx[1]

\* tx_id.startswith(existing_id) or existing_id.startswith(tx_id[:16]), for
\* an existing_id read back from a note (16 characters)
MatchesExisting(tx_id, existing_id) == tx_id.head = existing_id \/ existing_id = tx_id.head

\* _find_delta: the transactions to write, and those skipped as duplicates
\* and as unknown assets, in fetch order. existing_ids is built once, from
\* the rows read, before the loop.
find_delta(liqwid_txs, greptime_txs, assets) ==
    LET existing_ids == { NotesTxId(greptime_txs[i].notes) :
                            i \in { k \in DOMAIN greptime_txs : greptime_txs[k].notes.tx # << >> } }
        is_duplicate(tx) == \E e \in existing_ids : MatchesExisting(tx.id, e)
        known(tx) == tx.displayName \in assets
    IN [new_txs |-> SelectSeq(liqwid_txs, LAMBDA tx : ~is_duplicate(tx) /\ known(tx)),
        duplicates |-> SelectSeq(liqwid_txs, LAMBDA tx : is_duplicate(tx)),
        unknown_assets |-> SelectSeq(liqwid_txs, LAMBDA tx : ~is_duplicate(tx) /\ ~known(tx))]

\* the row _write_to_greptime makes of a transaction
SyncedRow(tx, wallet_address, keyword) ==
    [wallet_address |-> wallet_address, asset_symbol |-> tx.displayName,
     transaction_type |-> IF tx.type = "SUPPLY" THEN "deposit" ELSE "withdrawal",
     notes |-> SyncedNotes(keyword, tx.id), tx |-> tx]

\* _write_to_greptime: the deposits are inserted first, then the withdrawals
RowsWritten(new_txs, wallet_address, keyword) ==
    LET rows == [i \in DOMAIN new_txs |-> SyncedRow(new_txs[i], wallet_address, keyword)]
    IN SelectSeq(rows, LAMBDA r : r.transaction_type = "deposit") \o
       SelectSeq(rows, LAMBDA r : r.transaction_type = "withdrawal")

SyncReport(liqwid_txs, greptime_txs, delta, written, errors) ==
    [ran |-> TRUE, liqwid_txs |-> liqwid_txs, total_liqwid_txs |-> Len(liqwid_txs),
     total_greptime_txs |-> Len(greptime_txs),
     duplicates |-> delta.duplicates, skipped_duplicates |-> Len(delta.duplicates),
     skipped_unknown_assets |-> Len(delta.unknown_assets),
     new_transactions |-> written, errors |-> errors]

NoDelta == [new_txs |-> << >>, duplicates |-> << >>, unknown_assets |-> << >>]

\* One sync_wallet run for wallet w1: the Liqwid fetch fails or answers with
\* liqwid_txs; the read of the existing rows fails (and is skipped with a
\* warning) or returns the wallet's rows; the delta is written.
SyncWallet ==
    \E liqwid_ok \in BOOLEAN, read_ok \in BOOLEAN, liqwid_txs \in LiqwidBatches :
      IF ~liqwid_ok
      THEN /\ report' = SyncReport(<< >>, << >>, NoDelta, << >>, << "Liqwid API error" >>)
           /\ UNCHANGED << store, settings, PRICE_MISMATCH_COUNTS, gated, decisions, quotes, gin, gout, daemon_vars, ledger >>
      ELSE IF liqwid_txs = << >>
      THEN /\ report' = SyncReport(<< >>, << >>, NoDelta, << >>, << >>)
           /\ UNCHANGED << store, settings, PRICE_MISMATCH_COUNTS, gated, decisions, quotes, gin, gout, daemon_vars, ledger >>
      ELSE LET greptime_txs == IF read_ok
                               THEN SelectSeq(ledger, LAMBDA r : r.wallet_address = "w1")
                               ELSE << >>
               delta == find_delta(liqwid_txs, greptime_txs, SyncAssets)
               rows  == RowsWritten(delta.new_txs, "w1", REFERENCE_KEYWORD)
           IN /\ Len(ledger) + Len(rows) <= MaxRows
              /\ ledger' = ledger \o rows
              /\ report' = SyncReport(liqwid_txs, greptime_txs, delta, delta.new_txs, << >>)
              /\ UNCHANGED << store, settings, PRICE_MISMATCH_COUNTS, gated, decisions, quotes, gin, gout, daemon_vars >>

\* ------------------------------------------------------ specifications
\* the daemon's cycles over two assets, with price compare
Init ==
    /\ store \in [Assets -> CycleTables]
    /\ settings \in CycleSettings
    /\ PRICE_MISMATCH_COUNTS = ZeroCounts
    /\ gated = << >>
    /\ decisions = << >>
    /\ quotes = NoQuotes
    /\ gin = NoInput
    /\ gout = NoGains
    /\ DaemonOff
    /\ SyncOff

Next == EvaluateOnce

Spec == Init /\ [][Next]_vars

\* one asset, every small store and gate configuration
InitAsset ==
    /\ store \in { ("a1" :> t) @@ ("a2" :> EmptyTable) : t \in AssetTables }
    /\ settings \in AssetSettings
    /\ PRICE_MISMATCH_COUNTS = ZeroCounts
    /\ gated = << >>
    /\ decisions = << >>
    /\ quotes = NoQuotes
    /\ gin = NoInput
    /\ gout = NoGains
    /\ DaemonOff
    /\ SyncOff

SpecAsset == InitAsset /\ [][EvaluateOnce]_vars

\* calculate_correct_gains on every small input
InitGain ==
    /\ store = [a \in Assets |-> EmptyTable]
    /\ settings = Settings(<< >>, None, "none", "null", 1, GateOff, PriceCompareOff)
    /\ PRICE_MISMATCH_COUNTS = ZeroCounts
    /\ gated = << >>
    /\ decisions = << >>
    /\ quotes = NoQuotes
    /\ gin \in GainData
    /\ gout = NoGains
    /\ DaemonOff
    /\ SyncOff

SpecGain == InitGain /\ [][CalculateCorrectGains]_vars

\* calls of calculate_correct_gains on the deposit scenario
InitScenario ==
    /\ store = [a \in Assets |-> EmptyTable]
    /\ settings = Settings(<< >>, None, "none", "null", 1, GateOff, PriceCompareOff)
    /\ PRICE_MISMATCH_COUNTS = ZeroCounts
    /\ gated = << >>
    /\ decisions = << >>
    /\ quotes = NoQuotes
    /\ gin \in ScenarioData
    /\ gout = NoGains
    /\ DaemonOff
    /\ SyncOff

SpecScenario == InitScenario /\ [][CalculateCorrectGains]_vars

\* the process from the start of main, for each configuration file
InitDaemon ==
    /\ store = DaemonStore
    /\ settings = NotLoaded
    /\ PRICE_MISMATCH_COUNTS = ZeroCounts
    /\ gated = << >>
    /\ decisions = << >>
    /\ quotes = NoQuotes
    /\ gin = NoInput
    /\ gout = NoGains
    /\ raw \in RawConfigs
    /\ at = [t \in Threads |-> IF t = "main" THEN "load" ELSE "off"]
    /\ latest_decisions = << >>
    /\ payload = << >>
    /\ log = ""
    /\ SyncOff

NextDaemon == MainThread \/ EvalThread \/ HandleDecisions

SpecDaemon == InitDaemon /\ [][NextDaemon]_vars

\* the same with the evaluation thread scheduled: the except clause runs to
\* its end, and time.sleep(interval) returns
FairDaemon == SpecDaemon /\ WF_vars(LogError) /\ WF_vars(Wake)

\* the syncer's runs for one wallet, starting from empty tables
InitSync ==
    /\ store = [a \in Assets |-> EmptyTable]
    /\ settings = NotLoaded
    /\ PRICE_MISMATCH_COUNTS = ZeroCounts
    /\ gated = << >>
    /\ decisions = << >>
    /\ quotes = NoQuotes
    /\ gin = NoInput
    /\ gout = NoGains
    /\ DaemonOff
    /\ SyncOff

SpecSync == InitSync /\ [][SyncWallet]_vars

\* one asset held in two wallets
InitWallets ==
    /\ store \in { ("a1" :> t) @@ ("a2" :> EmptyTable) : t \in WalletTables }
    /\ settings \in WalletSettings
    /\ PRICE_MISMATCH_COUNTS = ZeroCounts
    /\ gated = << >>
    /\ decisions = << >>
    /\ quotes = NoQuotes
    /\ gin = NoInput
    /\ gout = NoGains
    /\ DaemonOff
    /\ SyncOff

SpecWallets == InitWallets /\ [][EvaluateOnce]_vars

\* ============================================================ properties
\* ---- helpers of the properties
\* the assets the last cycle evaluated
Evaluated == DOMAIN gated

\* both logical sources gave asset a a price in quotes q
TwoSources(q, a) == ~IsNone(q[a]["liqwid"]) /\ ~IsNone(q[a]["minswap"])

\* the prices of asset a in q differ by more than the configured tolerance
DeltaExceeds(q, a) ==
    LET l   == Get(q[a]["liqwid"])
        m   == Get(q[a]["minswap"])
        eps == settings.price_compare.tolerance_epsilon
    IN IF settings.price_compare.epsilon_mode = "absolute"
       THEN Abs(l - m) * eps.den > eps.num
       ELSE Abs(l - m) * eps.den > eps.num * Max2(l, m)

\* asset a's prices were compared in the cycle that produced g with quotes q
Compared(g, q, a) ==
    /\ settings.price_compare.enabled
    /\ a \in DOMAIN g
    /\ g[a].decision # 0 - 1
    /\ TwoSources(q, a)

\* C1: when at least two sources report, the delta exceeds the tolerance,
\* the counter after this cycle's increment is at or above the persistence
\* threshold and the action is "hold", the final decision is HOLD (0),
\* whatever the gate decided.
C1_PersistentMismatchHolds ==
    \A a \in Evaluated :
        ( /\ Compared(gated, quotes, a)
          /\ DeltaExceeds(quotes, a)
          /\ PRICE_MISMATCH_COUNTS[a] >= settings.price_compare.persistence_threshold
          /\ settings.price_compare.action_on_mismatch = "hold" )
        => decisions[a].decision = 0

\* a second consecutive mismatch at threshold 2 turns a WITHDRAW_OK into HOLD
C1_Witness ==
    \E a \in Evaluated :
        /\ Compared(gated, quotes, a)
        /\ DeltaExceeds(quotes, a)
        /\ settings.price_compare.persistence_threshold = 2
        /\ PRICE_MISMATCH_COUNTS[a] = 2
        /\ settings.price_compare.action_on_mismatch = "hold"
        /\ gated[a].decision = 1
        /\ decisions[a].decision = 0

\* ---- helpers: failures of one asset
\* the reference instant the resolver settles on for asset a, if any: the
\* last tagged withdrawal, else the start of the configured range under the
\* data_range fallback
ResolvedT0(a) ==
    LET ref == get_last_reference(store[a], settings.client.date_range, REFERENCE_KEYWORD)
    IN IF ~IsNone(ref) THEN Some(Get(ref).t0)
       ELSE IF /\ settings.reference_keyword_fallback = "data_range"
               /\ ~IsNone(settings.client.date_range)
            THEN Get(settings.client.date_range).start
       ELSE None

\* a position sample of asset a exists at or after instant t
SampleFrom(a, t) ==
    \E w \in Wallets : \E u \in DOMAIN store[a].rows[w] : u >= t

\* t0 is resolved for asset a but no position sample exists from t0 onward
NoSeriesAfterT0(a) ==
    /\ store[a].resolves
    /\ ~store[a].query_fails
    /\ ~IsNone(ResolvedT0(a))
    /\ ~SampleFrom(a, Get(ResolvedT0(a)))

\* the evaluation of asset a fails
Fails(a) == ~store[a].resolves \/ store[a].query_fails \/ NoSeriesAfterT0(a)

\* the decision asset a gets when it is the only configured asset
Alone(a) == PhaseB(store, [settings EXCEPT !.client.assets = << a >>])[a]

\* C2: evaluate_once returns a decision for every configured asset; an asset
\* whose evaluation fails (resolution failure, missing series, exception) is
\* marked ERROR (-1), and every asset's decision is the one it gets without
\* the other assets.
C2_FailureIsolated ==
    decisions # << >> =>
        /\ DOMAIN decisions = Range(settings.client.assets)
        /\ \A a \in Evaluated :
              /\ Fails(a) => decisions[a].decision = 0 - 1
              /\ gated[a] = Alone(a)

\* the parts of C2 the code keeps: a decision for every asset, ERROR for an
\* asset that does not resolve or whose queries raise, and isolation
C2_Kept ==
    decisions # << >> =>
        /\ DOMAIN decisions = Range(settings.client.assets)
        /\ \A a \in Evaluated :
              /\ (~store[a].resolves \/ store[a].query_fails)
                    => decisions[a].decision = 0 - 1
              /\ gated[a] = Alone(a)

\* C3: when t0 is resolved (tagged withdrawal or data_range fallback) and no
\* position sample exists from t0 onward, the decision is ERROR (-1).
C3_NoSeriesIsError ==
    \A a \in Evaluated : NoSeriesAfterT0(a) => gated[a].decision = 0 - 1

\* ---- helpers: the index an event resolves to
\* the index of the timebase the call maps event tx to (0: not mapped)
ResolvedIndex(tx) ==
    LET ts == IF gout.tx_timestamp_source = "created_at" THEN tx.created_at
              ELSE tx.timestamp
        matches == Matches(gout.timebase, ts)
        pos_idx == { i \in DOMAIN gout.timebase :
                       gout.timebase[i] \in Range(gin.position_timestamps) }
    IN IF Len(matches) = 0 THEN 0
       ELSE choose_index_for_tx(matches[1], [tx EXCEPT !.timestamp = ts],
                gout.alignment_method, gout.timebase,
                Range(gin.position_timestamps) # {}, pos_idx, gout.positions)

\* the sum of the magnitudes of the events of one kind resolved to index i
SumAt(kind, i) ==
    SeqSum([k \in DOMAIN gin.transactions |->
              IF /\ gin.transactions[k].transaction_type = kind
                 /\ ResolvedIndex(gin.transactions[k]) = i
              THEN Abs(gin.transactions[k].amount) ELSE 0])

\* C4: the deposit (withdrawal) vector holds, at every index, the sum of the
\* magnitudes of the deposits (withdrawals) that resolve to that index.
C4_VectorsAccumulate ==
    (gout.called /\ gout.ok) =>
        \A i \in DOMAIN gout.timebase :
            /\ gout.deposit_vector[i] = SumAt("deposit", i)
            /\ gout.withdrawal_vector[i] = SumAt("withdrawal", i)

\* C5: for every input, alignment policy and valid reference index t0 the
\* gain at t0 is exactly 0.
C5_GainZeroAtReference ==
    (gout.called /\ gout.ok) => gout.gains[gout.reference_time_index] = 0

\* a call referenced after a deposit, with a non-zero gain elsewhere
C5_Witness ==
    /\ gout.called /\ gout.ok
    /\ gout.reference_time_index > 1
    /\ gout.deposit_cdf[gout.reference_time_index] > 0
    /\ gout.gains[gout.reference_time_index] = 0
    /\ \E i \in DOMAIN gout.gains : gout.gains[i] # 0

\* ---- helpers: the gate
GateRuns(a) ==
    /\ settings.decision_gate.enabled
    /\ \/ gated[a].ref_mode = "keyword"
       \/ gated[a].ref_mode = "data_range" /\ settings.decision_gate.apply_in_fallback

\* last residual > k_sigma * sigma, from the telemetry of asset a
ResidualBeyondKSigma(a) ==
    LET r  == Get(gated[a].residual_usd)
        s2 == Get(gated[a].sigma_usd)
        k  == settings.decision_gate.k_sigma
    IN /\ r.num * r.den > 0
       /\ r.num * r.num * s2.den > k * k * s2.num * r.den * r.den

\* C6: with the gate enabled and fewer than max(min_points, order + 1)
\* samples in the basis, the decision is the baseline: 1 iff the aggregate
\* wmax is greater than 0, in keyword and in data_range mode alike.
C6_InsufficientPointsBaseline ==
    \A a \in Evaluated :
        (GateRuns(a) /\ gated[a].gate_log = "insufficient_points")
        => gated[a].decision = BaselineDecision(gated[a].wmax_usd)

C8_StddevRuleDecides ==
    \A a \in Evaluated :
        ( /\ GateRuns(a)
          /\ settings.decision_gate.threshold_mode = "stddev"
          /\ gated[a].gate_applied = Some(TRUE) )
        => (gated[a].decision = 1 <=> ResidualBeyondKSigma(a))

\* the gate evaluated in stddev mode and triggered
C8_Witness ==
    \E a \in Evaluated :
        /\ GateRuns(a)
        /\ settings.decision_gate.threshold_mode = "stddev"
        /\ gated[a].gate_applied = Some(TRUE)
        /\ ResidualBeyondKSigma(a)
        /\ gated[a].decision = 1

\* C9: in percentile mode, when the interval cannot be computed because at
\* most one residual is left to estimate it from, the trigger fires iff the
\* last residual is greater than k_sigma * sigma.
C9_PercentileFallsBack ==
    \A a \in Evaluated :
        ( /\ GateRuns(a)
          /\ settings.decision_gate.threshold_mode = "percentile"
          /\ gated[a].gate_applied = Some(TRUE)
          /\ Get(gated[a].gate_n_est) <= 1 )
        => /\ gated[a].decision = 1 <=> ResidualBeyondKSigma(a)
           /\ gated[a].residual_trigger = Some(gated[a].decision)

\* one residual left after excluding the last point, and the gate triggers
C9_Witness ==
    \E a \in Evaluated :
        /\ GateRuns(a)
        /\ settings.decision_gate.threshold_mode = "percentile"
        /\ settings.decision_gate.exclude_last_for_sigma
        /\ gated[a].gate_applied = Some(TRUE)
        /\ Get(gated[a].gate_n_est) = 1
        /\ gated[a].decision = 1

\* C10: in a cycle that compares an asset's prices from two sources, the
\* asset's counter becomes its previous value plus one if the delta exceeds
\* the tolerance, and 0 if it does not.
C10_CounterStep ==
    [][ \A a \in Assets :
          Compared(gated', quotes', a)
          => PRICE_MISMATCH_COUNTS'[a] =
                IF DeltaExceeds(quotes', a) THEN PRICE_MISMATCH_COUNTS[a] + 1 ELSE 0
      ]_vars

\* a counter that two consecutive mismatches raised to 2
C10_Witness ==
    \E a \in Evaluated :
        /\ Compared(gated, quotes, a)
        /\ DeltaExceeds(quotes, a)
        /\ PRICE_MISMATCH_COUNTS[a] = 2

\* C11: after every cycle an asset's counter is zero unless the cycle's
\* cross-source delta for the asset exceeded the tolerance; a cycle in which
\* the comparison is unavailable, or the asset is in ERROR, leaves it at zero.
C11_CounterZeroUnlessMismatch ==
    \A a \in Assets :
        PRICE_MISMATCH_COUNTS[a] > 0
        => (Compared(gated, quotes, a) /\ DeltaExceeds(quotes, a))

\* C12: with fewer than two sources for an asset the comparison is marked
\* unavailable and the decision is the one the gate produced, whatever the
\* counter carried over from earlier cycles.
C12_UnavailableNoOverride ==
    \A a \in Evaluated :
        ( /\ settings.price_compare.enabled
          /\ gated[a].decision # 0 - 1
          /\ ~TwoSources(quotes, a) )
        => /\ decisions[a].price_compare_unavailable = Some(1)
           /\ decisions[a].price_mismatch = Some(0)
           /\ decisions[a].decision = gated[a].decision

\* a WITHDRAW_OK kept in an unavailable cycle although the counter carried
\* over has reached the threshold and the action is "hold"
C12_Witness ==
    \E a \in Evaluated :
        /\ settings.price_compare.enabled
        /\ settings.price_compare.action_on_mismatch = "hold"
        /\ ~TwoSources(quotes, a)
        /\ PRICE_MISMATCH_COUNTS[a] >= settings.price_compare.persistence_threshold
        /\ gated[a].decision = 1
        /\ decisions[a].price_compare_unavailable = Some(1)
        /\ decisions[a].decision = 1

\* C13: the override never fires in a cycle in which the counter after the
\* update is below persistence_threshold: the decision is the gate's.
C13_NoOverrideBelowThreshold ==
    \A a \in Evaluated :
        ( /\ Compared(gated, quotes, a)
          /\ PRICE_MISMATCH_COUNTS[a] < settings.price_compare.persistence_threshold )
        => decisions[a].decision = gated[a].decision

\* threshold 2, sources at 1.00 and 1.05, relative tolerance 0.01: the first
\* mismatching cycle sets the counter to 1 and keeps the gate's WITHDRAW_OK
C13_Witness ==
    \E a \in Evaluated :
        /\ Compared(gated, quotes, a)
        /\ quotes[a] = QuoteOf(Some(100), Some(105))
        /\ settings.price_compare.epsilon_mode = "relative"
        /\ settings.price_compare.action_on_mismatch = "hold"
        /\ settings.price_compare.persistence_threshold = 2
        /\ PRICE_MISMATCH_COUNTS[a] = 1
        /\ decisions[a].price_mismatch = Some(1)
        /\ gated[a].decision = 1
        /\ decisions[a].decision = 1

\* ---- helpers: the null fallback
\* the reader returns no withdrawal of asset a tagged with the keyword
NoTaggedWithdrawal(a) ==
    LET txs == fetch_transactions(store[a], settings.client.date_range)
    IN \A i \in DOMAIN txs :
          ~(txs[i].transaction_type = "withdrawal" /\ txs[i].notes = REFERENCE_KEYWORD)

\* C14: with no tagged withdrawal and fallback mode "null" the decision is
\* HOLD (0) with gain 0, an empty wallet breakdown and no gate evaluation
\* (no residual, sigma or trigger).
C14_NullFallbackHolds ==
    \A a \in Evaluated :
        ( /\ store[a].resolves /\ ~store[a].query_fails
          /\ NoTaggedWithdrawal(a)
          /\ settings.reference_keyword_fallback = "null" )
        => /\ gated[a].decision = 0
           /\ gated[a].g_usd = Some(0)
           /\ gated[a].wmax_usd = << >>
           /\ gated[a].residual_usd = None
           /\ gated[a].sigma_usd = None
           /\ gated[a].residual_trigger = None
           /\ gated[a].gate_applied = None
           /\ gated[a].gate_log = ""

\* a growing series, the gate enabled, and still HOLD without a reference
C14_Witness ==
    \E a \in Evaluated :
        /\ NoTaggedWithdrawal(a)
        /\ settings.reference_keyword_fallback = "null"
        /\ settings.decision_gate.enabled
        /\ store[a].rows["w1"] = (0 :> Unit) @@ (MaxT :> 2 * Unit)
        /\ gated[a].ref_mode = "null"
        /\ gated[a].v_t1_usd = Some(2 * Unit)
        /\ gated[a].decision = 0

\* ---- helpers: wallets
\* the combined-series evaluation of asset a produced a gain
HasGain(a) == gated[a].decision # 0 - 1 /\ ~IsNone(gated[a].g_usd)

\* the range [t0, now] the evaluation of asset a read its data in
PerRange(a) == Some(DateRange(gated[a].t0_timestamp_seconds, Some(now_utc)))

\* the wallets of asset a with a position sample in that range
WalletsInRange(a) == DOMAIN fetch_asset_series_by_wallet(store[a], PerRange(a))

\* wallet w's gain at t1, computed on its own samples and transactions
WalletGainAtT1(a, w) ==
    LastGain(WalletGains(fetch_asset_series_by_wallet(store[a], PerRange(a))[w],
                         fetch_transactions(store[a], PerRange(a)), w,
                         settings.client).gains)

\* C15: the sum of wmax_usd over the wallet breakdown equals
\* safety_factor * max(0, total_gain), total_gain the combined gain.
C15_WmaxSumsToCap ==
    \A a \in Evaluated :
        HasGain(a)
        => TotalWmax(gated[a].wmax_usd)
              = settings.safety_factor_c * Max2(0, Get(gated[a].g_usd))

\* the same positions and transactions held in a single wallet
SingleWallet(table) ==
    [table EXCEPT !.rows = ("w1" :> fetch_asset_series(table, None)) @@ ("w2" :> << >>),
                  !.txs = [i \in DOMAIN @ |-> [@[i] EXCEPT !.wallet_address = "w1"]]]

\* C16: the decision does not depend on how the combined position series and
\* the transactions are split across wallets: it is the decision of the same
\* combined series held in one wallet.
C16_DecisionFromCombinedSeries ==
    \A a \in Evaluated :
        gated[a].decision = EvaluateAsset(SingleWallet(store[a]), settings).decision

\* the transactions of asset a in range fall on pairwise different instants
NonOverlapping(a) ==
    LET txs == fetch_transactions(store[a], PerRange(a))
    IN \A i, j \in DOMAIN txs : i # j => txs[i].timestamp # txs[j].timestamp

\* C17: for two wallets with disjoint, non-overlapping deposits and
\* withdrawals the combined-series gain at t1 is the sum of the two wallets'
\* independently computed gains at t1.
C17_GainsCompose ==
    \A a \in Evaluated :
        ( /\ HasGain(a)
          /\ ~IsNone(gated[a].t0_timestamp_seconds)
          /\ WalletsInRange(a) = Wallets
          /\ NonOverlapping(a) )
        => Get(gated[a].g_usd) = WalletGainAtT1(a, "w1") + WalletGainAtT1(a, "w2")

\* C18: a call of calculate_correct_gains with no position samples and no
\* transactions returns: the timebase is empty and the interpolated
\* positions, both CDFs and the gains are empty, nothing is raised.
C18_EmptyInputsNoOp ==
    ( gout.called /\ gin.position_timestamps = << >> /\ gin.transactions = << >> )
      => ( /\ gout.ok
           /\ gout.timebase = << >>
           /\ gout.positions = << >>
           /\ gout.deposit_cdf = << >>
           /\ gout.withdrawal_cdf = << >>
           /\ gout.gains = << >> )

NonDecreasing(v) == \A i \in DOMAIN v : i = 1 \/ v[i - 1] <= v[i]

\* C19: whatever the transactions (deposits positive, withdrawals negative)
\* and the alignment method, the deposit CDF and the withdrawal CDF that
\* calculate_correct_gains returns never decrease along the timebase.
C19_CdfsNonDecreasing ==
    ( gout.called /\ gout.ok )
      => ( NonDecreasing(gout.deposit_cdf) /\ NonDecreasing(gout.withdrawal_cdf) )

\* a call under a shifting alignment whose CDFs both step up
C19_Witness ==
    /\ gout.called /\ gout.ok
    /\ gout.alignment_method # "none"
    /\ \E i \in DOMAIN gin.transactions : gin.transactions[i].amount < 0
    /\ gout.deposit_cdf[Len(gout.timebase)] > gout.deposit_cdf[1]
    /\ gout.withdrawal_cdf[Len(gout.timebase)] > gout.withdrawal_cdf[1]

StrictlyIncreasing(v) == \A i \in DOMAIN v : i = 1 \/ v[i - 1] < v[i]

\* the instant of an event that the call was configured to align on
AlignedInstant(tx) ==
    IF gout.tx_timestamp_source = "created_at" THEN tx.created_at ELSE tx.timestamp

\* C20: the unified timebase that calculate_correct_gains returns is
\* strictly increasing and contains every position timestamp and, for every
\* transaction, its timestamp (its created_at instant when the call is
\* configured to use created_at).
C20_TimebaseStrictSuperset ==
    ( gout.called /\ gout.ok )
      => ( /\ StrictlyIncreasing(gout.timebase)
           /\ Range(gin.position_timestamps) \subseteq Range(gout.timebase)
           /\ \A i \in DOMAIN gin.transactions :
                 AlignedInstant(gin.transactions[i]) \in Range(gout.timebase) )

\* a call on created_at where an event's created_at falls on a position
\* sample and its timestamp is not an instant of the timebase
C20_Witness ==
    /\ gout.called /\ gout.ok
    /\ gout.tx_timestamp_source = "created_at"
    /\ Len(gout.timebase) >= 2
    /\ \E i \in DOMAIN gin.transactions :
          /\ gin.transactions[i].created_at \in Range(gin.position_timestamps)
          /\ gin.transactions[i].timestamp \notin Range(gout.timebase)

\* positions [100, 100, 200] at 0h, 1h, 2h and one deposit of 100 at tick t
DepositScenario(t) ==
    [position_timestamps |-> << 0, 2, 4 >>, position_values |-> << 100, 100, 200 >>,
     transactions |-> << Transaction(t, t, "w1", 100, "deposit", "") >>]

\* the call made with the default reference index under alignment method m
ScenarioCall(m) ==
    /\ gout.called
    /\ gout.alignment_method = m
    /\ gout.tx_timestamp_source = "timestamp"
    /\ gout.reference_time_index = 1

\* C21: with positions [100, 100, 200] at 0h, 1h, 2h and a deposit of 100,
\* the gain series is 0 at every point under exact alignment with the
\* deposit at 2h, and under right_open alignment with the deposit at 1.5h
\* the deposit is attributed to the 2h sample and the gain series is again
\* 0 at every point.
C21_RightOpenSameAsExact ==
    /\ ( gin = DepositScenario(4) /\ ScenarioCall("none") )
         => ( gout.ok /\ gout.gains = << 0, 0, 0 >> )
    /\ ( gin = DepositScenario(3) /\ ScenarioCall("right_open") )
         => ( /\ gout.ok
              /\ \A i \in DOMAIN gout.timebase :
                    gout.deposit_vector[i] = IF gout.timebase[i] = 4 THEN 100 ELSE 0
              /\ \A i \in DOMAIN gout.gains : gout.gains[i] = 0 )

\* the instants of the withdrawals of asset a tagged with the keyword, and
\* the position series of asset a, within the configured date range
TaggedInstants(a) ==
    { store[a].txs[i].timestamp : i \in { j \in DOMAIN store[a].txs :
          /\ store[a].txs[j].transaction_type = "withdrawal"
          /\ store[a].txs[j].notes = REFERENCE_KEYWORD
          /\ InRange(store[a].txs[j].timestamp, settings.client.date_range) } }

ConfiguredSeries(a) == fetch_asset_series(store[a], settings.client.date_range)

\* C22: in keyword mode t0 is the instant of the tagged withdrawal with the
\* latest timestamp among the withdrawals whose notes carry the keyword, and
\* v0 is the value of a position sample at minimal absolute distance to t0.
C22_KeywordReference ==
    \A a \in Evaluated : gated[a].ref_mode = "keyword"
      => /\ TaggedInstants(a) # {}
         /\ gated[a].t0_timestamp_seconds = Some(SetMax(TaggedInstants(a)))
         /\ \E s \in DOMAIN ConfiguredSeries(a) :
               /\ \A u \in DOMAIN ConfiguredSeries(a) :
                     Abs(s - Get(gated[a].t0_timestamp_seconds))
                       <= Abs(u - Get(gated[a].t0_timestamp_seconds))
               /\ gated[a].v_ref_usd = Some(ConfiguredSeries(a)[s])

\* keyword mode with two tagged withdrawals at different instants, the later
\* one away from every sample, and samples of different values
C22_Witness ==
    \E a \in Evaluated :
       /\ gated[a].ref_mode = "keyword"
       /\ Cardinality(TaggedInstants(a)) = 2
       /\ Get(gated[a].t0_timestamp_seconds) \notin DOMAIN ConfiguredSeries(a)
       /\ \E s, u \in DOMAIN ConfiguredSeries(a) : ConfiguredSeries(a)[s] # ConfiguredSeries(a)[u]

\* the configuration with k_sigma replaced by k
WithKSigma(k) == [settings EXCEPT !.decision_gate.k_sigma = k]

Triggered(dec) == dec.residual_trigger = Some(1)

\* C23: in stddev mode, on the same residuals, a gate that does not trigger
\* with k_sigma = k does not trigger with any greater k_sigma.
C23_KSigmaMonotone ==
    \A a \in Evaluated :
        ( /\ GateRuns(a)
          /\ settings.decision_gate.threshold_mode = "stddev"
          /\ ~Triggered(gated[a]) )
        => \A d \in 1..2 :
              ~Triggered(EvaluateAsset(store[a],
                                       WithKSigma(settings.decision_gate.k_sigma + d)))

\* the gate evaluated in stddev mode on a positive last residual that stays
\* within k_sigma * sigma of a non-degenerate sigma
C23_Witness ==
    \E a \in Evaluated :
        /\ GateRuns(a)
        /\ settings.decision_gate.threshold_mode = "stddev"
        /\ gated[a].gate_applied = Some(TRUE)
        /\ gated[a].residual_trigger = Some(0)
        /\ Get(gated[a].residual_usd).num * Get(gated[a].residual_usd).den > 0
        /\ Get(gated[a].sigma_usd).num > 0

C28_OnlyWithdrawOkToHold ==
    settings.price_compare.enabled =>
        \A a \in Evaluated :
            /\ decisions[a].decision # gated[a].decision =>
                   gated[a].decision = 1 /\ decisions[a].decision = 0
            /\ gated[a].decision = 0 - 1 => decisions[a] = gated[a]
            /\ settings.price_compare.action_on_mismatch = "flag_only" =>
                   decisions[a].decision = gated[a].decision

\* one cycle in which the override turned a WITHDRAW_OK into HOLD while an
\* ERROR asset with disagreeing quotes was left alone
C28_Witness ==
    /\ settings.price_compare.enabled
    /\ \E a, b \in Evaluated :
         /\ gated[a].decision = 1
         /\ decisions[a].decision = 0
         /\ gated[b].decision = 0 - 1
         /\ quotes[b] = QuoteOf(Some(100), Some(105))
         /\ decisions[b] = gated[b]

\* a cycle under "flag_only" that flagged a persistent mismatch on a
\* WITHDRAW_OK asset and returned WITHDRAW_OK
C28_FlagOnlyReached ==
    /\ settings.price_compare.enabled
    /\ settings.price_compare.action_on_mismatch = "flag_only"
    /\ \E a \in Evaluated :
         /\ gated[a].decision = 1
         /\ decisions[a].price_mismatch = Some(1)
         /\ PRICE_MISMATCH_COUNTS[a] >= settings.price_compare.persistence_threshold
         /\ decisions[a].decision = 1

\* C25: at most one evaluation cycle is in progress at a time: no two
\* threads of the process are inside a cycle (the evaluate_once call, the
\* exporter update or the except clause that follows it) at once, so the
\* counter map is never used by two cycles concurrently.
InCycle(t) == at[t] \in {"evaluate", "update", "except"}
C25_OneCycleAtATime == Cardinality({ t \in Threads : InCycle(t) }) <= 1

\* a later cycle of the daemon is in progress while the main thread idles
\* and the HTTP thread has served the decisions of an earlier cycle
C25_Witness ==
    /\ at["eval"] = "evaluate"
    /\ at["main"] = "idle"
    /\ at["http"] = "serve"
    /\ latest_decisions # << >>
    /\ payload # << >>

\* C26: a configuration file with an invalid policy name or an out-of-range
\* parameter makes loading fail before any evaluation begins: main never
\* gets past load_settings, no thread evaluates, no decision is made.
InvalidRaw(r) ==
    \/ r.fallback \notin {"null", "data_range"}
    \/ r.method \notin {"polynomial_fit", "median"}
    \/ r.threshold_mode \notin {"stddev", "percentile"}
    \/ r.alignment_method \notin AlignmentMethods
    \/ r.k_sigma <= 0
C26_InvalidConfigFailsAtLoad ==
    InvalidRaw(raw) =>
        /\ at["main"] \in {"load", "failed"}
        /\ at["eval"] = "off"
        /\ decisions = << >>

\* the files the loader does reject: an unknown threshold mode or alignment
\* method, or k_sigma = 0 with the gate enabled
C26_RejectedAtLoad ==
    (raw.threshold_mode = "iqr" \/ raw.alignment_method = "nearest" \/ raw.k_sigma = 0) =>
        /\ at["main"] \in {"load", "failed"}
        /\ at["eval"] = "off"
        /\ decisions = << >>

\* C27: a decision handed to the exporter is never modified afterwards. The
\* snapshot the exporter holds equals the decisions the last cycle returned
\* at every moment outside the update itself, and a step of the exporter (the
\* update, or the HTTP handler, which moves no thread) changes neither the
\* decisions returned, nor the Phase B decisions, nor the counter map; the
\* handler leaves the snapshot as it is.
ExporterUpdateStep == at["eval"] = "update" /\ at'["eval"] # "update"
HandlerStep == at' = at
C27_ExporterOnlyReads ==
    /\ [](at["eval"] \notin {"off", "update"} => latest_decisions = decisions)
    /\ [][ (ExporterUpdateStep \/ HandlerStep) =>
             /\ UNCHANGED << decisions, gated, PRICE_MISMATCH_COUNTS, settings >>
             /\ (HandlerStep => latest_decisions' = latest_decisions)
             /\ (ExporterUpdateStep => latest_decisions' = decisions) ]_vars

\* an unauthenticated /api/decisions response, without the wallet breakdown,
\* was served from a snapshot that still holds it
C27_Witness ==
    /\ at["eval"] = "sleep"
    /\ latest_decisions = decisions
    /\ \E a \in DOMAIN latest_decisions :
         /\ latest_decisions[a].wmax_usd # << >>
         /\ a \in DOMAIN payload
         /\ payload[a].wallet_breakdown = << >>
         /\ payload[a].decision = latest_decisions[a].decision

\* C29: in daemon mode a failed cycle never stops the evaluation loop: once
\* the loop is in its except clause, the next evaluate_once call follows.
C29_LoopSurvivesFailedCycle == (at["eval"] = "except") ~> (at["eval"] = "evaluate")

\* the next cycle is running after a cycle that failed and was logged, in a
\* daemon that had completed a cycle before
C29_Witness ==
    /\ at["eval"] = "evaluate"
    /\ log = "Evaluation error"
    /\ latest_decisions # << >>

\* C30: across any sequence of sync_wallet runs, a fetched transaction is
\* skipped as a duplicate if and only if that same transaction has already
\* been written to the store; so no transaction is written twice (the table
\* never holds two rows made of one transaction) and no new transaction is
\* dropped as a duplicate.
WrittenTxs(rows) == { rows[i].tx : i \in DOMAIN rows }
C30_DuplicateIffWritten ==
    /\ [](\A i, j \in DOMAIN ledger : i # j => ledger[i].tx # ledger[j].tx)
    /\ [][ \A k \in DOMAIN report'.liqwid_txs :
             (\E d \in DOMAIN report'.duplicates :
                 report'.duplicates[d] = report'.liqwid_txs[k])
             <=> report'.liqwid_txs[k] \in WrittenTxs(ledger) ]_vars

\* a run skipped a transaction that had been written before and wrote one
\* that had not
C30_DedupReached ==
    /\ report.ran
    /\ report.skipped_duplicates = 1
    /\ Len(report.new_transactions) = 1
    /\ report.duplicates[1] \in WrittenTxs(ledger)
    /\ report.duplicates[1] # report.new_transactions[1]
    /\ report.duplicates[1].id.head # report.new_transactions[1].id.head

====
